---- MODULE Spec2Model ----
(***************************************************************************)
(* Verification model of the route-rs link kernel.                         *)
(*                                                                         *)
(* Independent sub-systems share this module, each with its own            *)
(* specification; the variables of the other sub-systems stay at their     *)
(* initial values:                                                         *)
(*   SpecFork / SpecForkFair / SpecForkDrop                                *)
(*        ForkLink: ForkIngressor (runtime/link/fork_link.rs) feeding N    *)
(*        bounded queues, each read by a QueueEgressor.                    *)
(*   SpecAsync / SpecAsyncFair / SpecAsyncDrop                             *)
(*        AsyncElementLink: AsyncElementConsumer and AsyncElementProvider  *)
(*        (src/api/async_element.rs).                                      *)
(*   SpecBlackHole                                                         *)
(*        BlackHole (runtime/link/blackhole_link.rs).                      *)
(*   SpecProcess / SpecProcessFair                                         *)
(*        ProcessLink: ProcessRunner (runtime/link/primitive/              *)
(*        process_link.rs) pulled until End.                               *)
(*   SpecAsyncFifo, SpecLinks                                              *)
(*        the links above fed by an interval generator, whose stream       *)
(*        returns NotReady between items.                                  *)
(*   SpecBuilder                                                           *)
(*        the builders of ForkLink, ProcessLink and BlackHoleLink.         *)
(*   SpecProducers / SpecProducersDrop                                     *)
(*        ForkLink and AsyncElementLink, each on its own, run to their     *)
(*        natural completion (and with the provider dropped early).        *)
(*   SpecClassify, SpecJoin, SpecExhaust, SpecDns, SpecIdentity            *)
(*        compositions of links: the pipelines of the examples and of      *)
(*        the tests.                                                       *)
(*                                                                         *)
(* Every access of a task to shared state (a crossbeam channel, a          *)
(* TaskPark cell, a task's notification flag) is one step, so that all     *)
(* interleavings of the tasks are explored.                                *)
(***************************************************************************)
EXTENDS Integers, Sequences, FiniteSets, TLC

\* ---------------------------------------------------------------- bounds
MaxPorts == 2      \* largest num_egressors / number of ingress streams explored
MaxCap   == 2      \* largest queue_capacity explored
MaxLen   == 2      \* longest input stream explored
LMaxPorts == 2     \* largest num_egressors explored under fairness
LMaxCap  == 1      \* largest queue_capacity explored under fairness
LMaxLen  == 1      \* longest input stream explored under fairness
AMaxCap  == 3      \* largest queue_capacity of an AsyncElementLink explored
AMaxLen  == 4      \* longest input of an AsyncElementLink explored
BMaxStreams == 2   \* most ingress streams of a BlackHole explored
BMaxLen  == 3      \* longest ingress stream of a BlackHole explored
GMaxPorts == 2     \* largest num_egressors explored with an interval input
GMaxCap  == 1      \* largest queue_capacity explored with an interval input
GMaxLen  == 2      \* longest interval input explored
PMaxLen  == 3      \* longest input of a ProcessLink explored
NMaxSrc == 2       \* ingress streams of a JoinLink or a RouterExhaust
NMaxLen == 2       \* packets per ingress stream of those, and of the dns pipeline
NMaxIn == 4        \* packets of the one input of the other compositions
NMaxCap == 2       \* queue capacity in the compositions

\* The End sentinel carried by the queues (Option::None); packets are 1, 2, ...
None == 0

\* Packets are never inspected by the links modelled here (they are generic in
\* the packet type), so the k-th packet of a stream is simply the number k.
Stream(n) == [i \in 1..n |-> i]

IsPrefix(s, t) == Len(s) <= Len(t) /\ \A i \in 1..Len(s) : s[i] = t[i]

VARIABLES
    \* ---- ForkLink
    fN,         \* num_egressors
    fCap,       \* queue_capacity
    fIn,        \* the whole input stream (never changes)
    fRest,      \* input_stream: the packets not yet pulled
    fQ,         \* the port channels: fQ[p] is the buffer of to_egressors[p]
    fPark,      \* task_parks[p]
    fRecvOpen,  \* fRecvOpen[p]: the receiving end of port p is alive
    fSendOpen,  \* the sending ends (to_egressors) are alive
    fPc,        \* where the ForkIngressor task is
    fPort,      \* the port index of the loop the ForkIngressor is in
    fPkt,       \* the packet the ForkIngressor is cloning to the ports
    fPanic,     \* "none", "poll", "drop" or "abort" (a panic while unwinding)
    fEarly,     \* the ForkIngressor was dropped before its poll returned Ready
    fNote,      \* fNote[t]: task t is notified (0: ForkIngressor, p: consumer of port p)
    ePc,        \* where the consumer task of port p is
    eOut,       \* the packets egress p has yielded
    fGaps,      \* the input stream is an interval generator (NotReady between items)
    fReady,     \* the input stream has something to return
    fSaw,       \* what the running poll has observed: "none", "full", "input"
    fSent,      \* fSent[p]: everything enqueued on port p so far, in order
    \* ---- AsyncElementLink
    aCap, aIn, aRest, aQ, aSlotC, aSlotP, aProvOpen, aConsOpen,
    cPc, pPc, aNote, aOut, aPanic, aEarly,
    aGaps,      \* the input stream is an interval generator
    aReady,     \* the input stream has something to return
    cSaw,       \* what the running poll of the consumer has observed
    pSaw,       \* what the running poll of the provider has observed
    \* ---- BlackHole
    bN, bIn, bRest, bReady, bGaps, bPc, bIdx, bNote, bEnded,
    \* ---- ProcessLink
    rF,         \* the processor: rF[x] is process(x), None when it drops x
    rIn,        \* the whole input stream
    rRest,      \* in_stream: the packets not yet pulled
    rGaps,      \* the input stream is an interval generator
    rReady,     \* the input stream has something to return
    rPc,        \* where the task pulling the ProcessRunner is
    rSaw,       \* what the running poll has observed
    rNote,      \* the pulling task is notified
    rOut,       \* the packets the egress has yielded
    \* ---- link builders
    kKind,      \* "Fork", "Process" or "BlackHole"
    kIn,        \* in_stream / hole: None, or the number of streams held
    kCap,       \* queue_capacity
    kNum,       \* num_egressors: None or Some(n)
    kProc,      \* processor: None or Some
    kArgs,      \* the setter calls made so far, with their arguments
    kOrder,     \* the calls made so far, in order
    kPc,        \* "building", "built" or "panicked"
    kFail,      \* the call that panicked, or "none"
    kLink,      \* the result of build_link: number of runnables and of egressors
    \* ---- compositions of links (pipelines)
    nKind,      \* which composition runs: "classify", "join", "exhaust", "dns", "identity"
    nCfg,       \* what it was built with: ingresses, capacity, inputs, processors
    nQ,         \* the content of every stream and channel, oldest first
    nClosed,    \* the producer of the stream or channel is gone
    nPc,        \* per task: "run" or "done"
    nHeld,      \* per task: the item pulled and not yet sent, or NoItem
    nRR,        \* JoinLink: the ingress the next pass starts at
    nEnded      \* JoinLink: per ingress, End was returned

fvars == <<fN, fCap, fIn, fRest, fQ, fPark, fRecvOpen, fSendOpen, fPc, fPort,
           fPkt, fPanic, fEarly, fNote, ePc, eOut, fGaps, fReady, fSaw, fSent>>
avars == <<aCap, aIn, aRest, aQ, aSlotC, aSlotP, aProvOpen, aConsOpen,
           cPc, pPc, aNote, aOut, aPanic, aEarly, aGaps, aReady, cSaw, pSaw>>
bvars == <<bN, bIn, bRest, bReady, bGaps, bPc, bIdx, bNote, bEnded>>
rvars == <<rF, rIn, rRest, rGaps, rReady, rPc, rSaw, rNote, rOut>>
kvars == <<kKind, kIn, kCap, kNum, kProc, kArgs, kOrder, kPc, kFail, kLink>>
nvars == <<nKind, nCfg, nQ, nClosed, nPc, nHeld, nRR, nEnded>>
vars == <<fvars, avars, bvars, rvars, kvars, nvars>>

\* ------------------------------------------------------------ TaskPark
\* The one-slot rendezvous cell of a queue.  st is "Empty", "Parked" (h is the
\* parked task), "IndirectNotify" or "Dead".
NoTask == -1
TPEmpty    == [st |-> "Empty", h |-> NoTask]
TPParked(t) == [st |-> "Parked", h |-> t]
TPIndirect == [st |-> "IndirectNotify", h |-> NoTask]
TPDead     == [st |-> "Dead", h |-> NoTask]

\* park_and_notify that parks the caller in a Dead cell.
park_and_notify_revives(tp, me) ==
    CASE tp.st = "Empty"          -> [tp |-> TPParked(me), wake |-> {}]
      [] tp.st = "Parked"         -> [tp |-> TPParked(me), wake |-> {tp.h} \ {me}]
      [] tp.st = "IndirectNotify" -> [tp |-> TPEmpty, wake |-> {me}]
      [] tp.st = "Dead"           -> [tp |-> TPParked(me), wake |-> {}]

\* park_and_notify, called by task `me`: the cell after the call, and the
\* tasks the call notifies.  The caller parks itself and the peer that was
\* parked is notified; on IndirectNotify or Dead the caller is not left
\* parked: it notifies itself.
park_and_notify(tp, me) ==
    CASE tp.st = "Empty"          -> [tp |-> TPParked(me), wake |-> {}]
      [] tp.st = "Parked"         -> [tp |-> TPParked(me), wake |-> {tp.h} \ {me}]
      [] tp.st = "IndirectNotify" -> [tp |-> TPEmpty, wake |-> {me}]
      [] tp.st = "Dead"           -> [tp |-> TPDead, wake |-> {me}]

\* unpark_and_notify that forgets a wake-up raised while nobody is parked.
unpark_and_notify_forgets(tp) ==
    CASE tp.st = "Empty"          -> [tp |-> TPEmpty, wake |-> {}]
      [] tp.st = "Parked"         -> [tp |-> TPEmpty, wake |-> {tp.h}]
      [] tp.st = "IndirectNotify" -> [tp |-> TPIndirect, wake |-> {}]
      [] tp.st = "Dead"           -> [tp |-> TPDead, wake |-> {}]

\* unpark_and_notify: the parked task, if any, is taken out and notified; a
\* wake-up raised while nobody is parked is recorded as IndirectNotify.
unpark_and_notify(tp) ==
    CASE tp.st = "Empty"          -> [tp |-> TPIndirect, wake |-> {}]
      [] tp.st = "Parked"         -> [tp |-> TPEmpty, wake |-> {tp.h}]
      [] tp.st = "IndirectNotify" -> [tp |-> TPIndirect, wake |-> {}]
      [] tp.st = "Dead"           -> [tp |-> TPDead, wake |-> {}]

\* die_and_notify that releases the parked task and leaves the cell Empty.
die_and_notify_empties(tp) ==
    [tp |-> TPEmpty, wake |-> IF tp.st = "Parked" THEN {tp.h} ELSE {}]

\* die_and_notify: the cell becomes Dead and the parked task is released.
die_and_notify(tp) ==
    [tp |-> TPDead, wake |-> IF tp.st = "Parked" THEN {tp.h} ELSE {}]

\* task.notify() on every task of S.
Notify(note, S) == [t \in DOMAIN note |-> note[t] \/ t \in S]

\* ------------------------------------------------- crossbeam channel
\* is_full that reports a full channel one entry too late.
is_full_late(q, cap) == Len(q) > cap

\* Sender::is_full of a bounded channel.
is_full(q, cap) == Len(q) >= cap

\* Sender::try_send: "Ok", or the error returned.
try_send(q, cap, recvOpen) ==
    IF ~recvOpen THEN "Disconnected"
    ELSE IF Len(q) >= cap THEN "Full"
    ELSE "Ok"

\* ------------------------------------------------------------ ForkLink
ING == 0                       \* the task running the ForkIngressor
Ports == 1..fN

\* ForkLink::build_link: one bounded channel, one Empty TaskPark and one
\* QueueEgressor per port; all runnables are spawned (notified once).
ForkBuilt(n, cap, len, gaps) ==
    /\ fN = n /\ fCap = cap
    /\ fIn = Stream(len) /\ fRest = Stream(len)
    /\ fGaps = gaps /\ fReady = ~gaps /\ fSaw = "none"
    /\ fSent = [p \in 1..n |-> << >>]
    /\ fQ = [p \in 1..n |-> << >>]
    /\ fPark = [p \in 1..n |-> TPEmpty]
    /\ fRecvOpen = [p \in 1..n |-> TRUE]
    /\ fSendOpen = TRUE
    /\ fPc = "spawned" /\ fPort = 1 /\ fPkt = None
    /\ fPanic = "none" /\ fEarly = FALSE
    /\ fNote = [t \in 0..n |-> TRUE]
    /\ ePc = [p \in 1..n |-> "idle"]
    /\ eOut = [p \in 1..n |-> << >>]

ForkAlive == fPanic # "abort"

\* The executor polls the ForkIngressor task, which was notified.
ForkPollStart ==
    /\ ForkAlive /\ fPc \in {"spawned", "notready"} /\ fNote[ING]
    /\ fNote' = [fNote EXCEPT ![ING] = FALSE]
    /\ fPc' = "check" /\ fPort' = 1 /\ fSaw' = "none"
    /\ UNCHANGED <<nvars, avars, bvars, rvars, kvars, fGaps, fReady, fSent, fN, fCap, fIn, fRest, fQ, fPark, fRecvOpen, fSendOpen,
                   fPkt, fPanic, fEarly, ePc, eOut>>

\* ForkCheckFull that looks at the first port only.
ForkCheckFirstPortOnly ==
    /\ ForkAlive /\ fPc = "check"
    /\ IF is_full(fQ[1], fCap)
         THEN fPc' = "park" /\ fPort' = 1 /\ fSaw' = "full"
         ELSE fPc' = "pull" /\ fPort' = 1 /\ UNCHANGED fSaw
    /\ UNCHANGED <<nvars, avars, bvars, rvars, kvars, fGaps, fReady, fSent,
                   fN, fCap, fIn, fRest, fQ, fPark, fRecvOpen, fSendOpen,
                   fPkt, fPanic, fEarly, fNote, ePc, eOut>>

\* ForkCheckFull that yields to the executor (notifies itself and returns
\* NotReady) between the ports.
ForkCheckFullYields ==
    /\ ForkAlive /\ fPc = "check"
    /\ IF is_full(fQ[fPort], fCap)
         THEN fPc' = "park" /\ fPort' = fPort /\ fSaw' = "full" /\ UNCHANGED fNote
         ELSE /\ UNCHANGED fSaw
              /\ IF fPort = fN
                   THEN fPc' = "pull" /\ fPort' = 1 /\ UNCHANGED fNote
                   ELSE fPc' = "notready" /\ fPort' = fPort
                        /\ fNote' = Notify(fNote, {ING})
    /\ UNCHANGED <<nvars, avars, bvars, rvars, kvars, fGaps, fReady, fSent,
                   fN, fCap, fIn, fRest, fQ, fPark, fRecvOpen, fSendOpen,
                   fPkt, fPanic, fEarly, ePc, eOut>>

\* poll, lines 156-161: to_egressor.is_full() of port fPort.
ForkCheckFull ==
    /\ ForkAlive /\ fPc = "check"
    /\ IF is_full(fQ[fPort], fCap)
         THEN fPc' = "park" /\ fPort' = fPort /\ fSaw' = "full"
         ELSE /\ UNCHANGED fSaw
              /\ IF fPort = fN
                   THEN fPc' = "pull" /\ fPort' = 1
                   ELSE fPc' = "check" /\ fPort' = fPort + 1
    /\ UNCHANGED <<nvars, avars, bvars, rvars, kvars, fGaps, fReady, fSent, fN, fCap, fIn, fRest, fQ, fPark, fRecvOpen, fSendOpen,
                   fPkt, fPanic, fEarly, fNote, ePc, eOut>>

\* ForkPark that returns NotReady without parking in the TaskPark.
ForkParkNoPark ==
    /\ ForkAlive /\ fPc = "park"
    /\ fPc' = "notready"
    /\ UNCHANGED <<nvars, avars, bvars, rvars, kvars, fGaps, fReady, fSaw, fSent, fN, fCap, fIn, fRest, fQ, fPark, fRecvOpen,
                   fSendOpen, fPort, fPkt, fPanic, fEarly, fNote, ePc, eOut>>

\* ForkPark that parks and then goes on to pull the input instead of
\* returning NotReady.
ForkParkGoesOn ==
    /\ ForkAlive /\ fPc = "park"
    /\ LET r == park_and_notify(fPark[fPort], ING) IN
         /\ fPark' = [fPark EXCEPT ![fPort] = r.tp]
         /\ fNote' = Notify(fNote, r.wake)
    /\ fPc' = "pull"
    /\ UNCHANGED <<nvars, avars, bvars, rvars, kvars, fGaps, fReady, fSaw, fSent,
                   fN, fCap, fIn, fRest, fQ, fRecvOpen, fSendOpen, fPort,
                   fPkt, fPanic, fEarly, ePc, eOut>>

\* poll, lines 158-159: park_and_notify(&task_parks[port]); return NotReady.
ForkPark ==
    /\ ForkAlive /\ fPc = "park"
    /\ LET r == park_and_notify(fPark[fPort], ING) IN
         /\ fPark' = [fPark EXCEPT ![fPort] = r.tp]
         /\ fNote' = Notify(fNote, r.wake)
    /\ fPc' = "notready"
    /\ UNCHANGED <<nvars, avars, bvars, rvars, kvars, fGaps, fReady, fSaw, fSent, fN, fCap, fIn, fRest, fQ, fRecvOpen, fSendOpen, fPort,
                   fPkt, fPanic, fEarly, ePc, eOut>>

\* poll, lines 162-166: the input stream is polled; NotReady returns NotReady
\* (try_ready!), None completes the future.
ForkPull ==
    /\ ForkAlive /\ fPc = "pull"
    /\ IF ~fReady
         THEN /\ fPc' = "notready" /\ fSaw' = "input"
              /\ UNCHANGED <<fRest, fPkt, fPort, fReady>>
         ELSE IF fRest = << >>
           THEN /\ fPc' = "ready" /\ UNCHANGED <<fRest, fPkt, fPort, fReady, fSaw>>
           ELSE /\ fPkt' = Head(fRest) /\ fRest' = Tail(fRest)
                /\ fReady' = ~fGaps
                /\ fPc' = "send" /\ fPort' = 1 /\ UNCHANGED fSaw
    /\ UNCHANGED <<nvars, avars, bvars, rvars, kvars, fGaps, fSent, fN, fCap, fIn, fQ, fPark, fRecvOpen, fSendOpen,
                   fPanic, fEarly, fNote, ePc, eOut>>

\* ForkSend with the packet moved into the first port instead of cloned to
\* every port.
ForkSendNoClone ==
    /\ ForkAlive /\ fPc = "send"
    /\ fQ' = [fQ EXCEPT ![fPort] = IF fPort = 1 THEN Append(@, fPkt) ELSE @]
    /\ fSent' = [fSent EXCEPT ![fPort] = IF fPort = 1 THEN Append(@, fPkt) ELSE @]
    /\ fPc' = "unpark"
    /\ UNCHANGED <<nvars, avars, bvars, rvars, kvars, fGaps, fReady, fSaw, fN, fCap, fIn, fRest, fPark, fRecvOpen,
                   fSendOpen, fPort, fPanic, fPkt, fEarly, fNote, ePc, eOut>>

\* poll, lines 170-175: try_send(Some(packet.clone())) on port fPort; an error
\* panics, and the unwinding runs ForkIngressor's Drop.
ForkSend ==
    /\ ForkAlive /\ fPc = "send"
    /\ IF try_send(fQ[fPort], fCap, fRecvOpen[fPort]) = "Ok"
         THEN /\ fQ' = [fQ EXCEPT ![fPort] = Append(@, fPkt)]
              /\ fSent' = [fSent EXCEPT ![fPort] = Append(@, fPkt)]
              /\ fPc' = "unpark"
              /\ UNCHANGED <<fPort, fPanic>>
         ELSE /\ fPanic' = "poll"
              /\ fPc' = "dropSend" /\ fPort' = 1
              /\ UNCHANGED <<fQ, fSent>>
    /\ UNCHANGED <<nvars, avars, bvars, rvars, kvars, fGaps, fReady, fSaw, fN, fCap, fIn, fRest, fPark, fRecvOpen, fSendOpen,
                   fPkt, fEarly, fNote, ePc, eOut>>

\* ForkUnpark that returns NotReady (notifying itself) after each port, and
\* starts over at the next poll.
ForkUnparkYields ==
    /\ ForkAlive /\ fPc = "unpark"
    /\ LET r == unpark_and_notify(fPark[fPort]) IN
         /\ fPark' = [fPark EXCEPT ![fPort] = r.tp]
         /\ fNote' = Notify(fNote, r.wake \cup {ING})
    /\ fPc' = "notready" /\ fPort' = 1
    /\ UNCHANGED <<nvars, avars, bvars, rvars, kvars, fGaps, fReady, fSaw, fSent,
                   fN, fCap, fIn, fRest, fQ, fRecvOpen, fSendOpen,
                   fPkt, fPanic, fEarly, ePc, eOut>>

\* poll, line 176: unpark_and_notify(&task_parks[port]); after the last port
\* the loop starts over.
ForkUnpark ==
    /\ ForkAlive /\ fPc = "unpark"
    /\ LET r == unpark_and_notify(fPark[fPort]) IN
         /\ fPark' = [fPark EXCEPT ![fPort] = r.tp]
         /\ fNote' = Notify(fNote, r.wake)
    /\ IF fPort = fN
         THEN fPc' = "check" /\ fPort' = 1
         ELSE fPc' = "send" /\ fPort' = fPort + 1
    /\ UNCHANGED <<nvars, avars, bvars, rvars, kvars, fGaps, fReady, fSaw, fSent, fN, fCap, fIn, fRest, fQ, fRecvOpen, fSendOpen,
                   fPkt, fPanic, fEarly, ePc, eOut>>

\* poll returned Ready(()): the executor drops the completed future.
ForkComplete ==
    /\ ForkAlive /\ fPc = "ready"
    /\ fPc' = "dropSend" /\ fPort' = 1
    /\ UNCHANGED <<nvars, avars, bvars, rvars, kvars, fGaps, fReady, fSaw, fSent, fN, fCap, fIn, fRest, fQ, fPark, fRecvOpen, fSendOpen,
                   fPkt, fPanic, fEarly, fNote, ePc, eOut>>

\* ForkDropSend that sends no sentinel.
ForkDropNoSentinel ==
    /\ ForkAlive /\ fPc = "dropSend"
    /\ IF fPort = fN
         THEN fPc' = "dropDie" /\ fPort' = 1
         ELSE fPc' = "dropSend" /\ fPort' = fPort + 1
    /\ UNCHANGED <<nvars, avars, bvars, rvars, kvars, fGaps, fReady, fSaw, fSent,
                   fN, fCap, fIn, fRest, fQ, fPark, fRecvOpen, fSendOpen,
                   fPkt, fPanic, fEarly, fNote, ePc, eOut>>

\* Drop, lines 138-142: try_send(None) on port fPort; an error panics (a
\* second panic, when the drop runs in the unwinding of a panic of poll,
\* aborts the process).  A panic of drop skips the die_and_notify loop; the
\* fields, and with them the sending ends, are dropped all the same.
ForkDropSend ==
    /\ ForkAlive /\ fPc = "dropSend"
    /\ IF try_send(fQ[fPort], fCap, fRecvOpen[fPort]) = "Ok"
         THEN /\ fQ' = [fQ EXCEPT ![fPort] = Append(@, None)]
              /\ fSent' = [fSent EXCEPT ![fPort] = Append(@, None)]
              /\ IF fPort = fN
                   THEN fPc' = "dropDie" /\ fPort' = 1
                   ELSE fPc' = "dropSend" /\ fPort' = fPort + 1
              /\ UNCHANGED <<fPanic, fSendOpen>>
         ELSE /\ fPanic' = IF fPanic = "poll" THEN "abort" ELSE "drop"
              /\ fPc' = "dropped" /\ fSendOpen' = FALSE
              /\ UNCHANGED <<fQ, fPort, fSent>>
    /\ UNCHANGED <<nvars, avars, bvars, rvars, kvars, fGaps, fReady, fSaw, fN, fCap, fIn, fRest, fPark, fRecvOpen,
                   fPkt, fEarly, fNote, ePc, eOut>>

\* ForkDropDie that leaves the TaskParks as they are and wakes nobody.
ForkDropNoDie ==
    /\ ForkAlive /\ fPc = "dropDie"
    /\ IF fPort = fN
         THEN fPc' = "dropped" /\ fSendOpen' = FALSE /\ fPort' = fPort
         ELSE fPc' = "dropDie" /\ fPort' = fPort + 1 /\ UNCHANGED fSendOpen
    /\ UNCHANGED <<nvars, avars, bvars, rvars, kvars, fGaps, fReady, fSaw, fSent, fN, fCap, fIn, fRest, fQ, fPark, fRecvOpen,
                   fPkt, fPanic, fEarly, fNote, ePc, eOut>>

\* Drop, lines 143-145: die_and_notify(&task_park) of port fPort; after the
\* last one the fields are dropped.
ForkDropDie ==
    /\ ForkAlive /\ fPc = "dropDie"
    /\ LET r == die_and_notify(fPark[fPort]) IN
         /\ fPark' = [fPark EXCEPT ![fPort] = r.tp]
         /\ fNote' = Notify(fNote, r.wake)
    /\ IF fPort = fN
         THEN fPc' = "dropped" /\ fSendOpen' = FALSE /\ fPort' = fPort
         ELSE fPc' = "dropDie" /\ fPort' = fPort + 1 /\ UNCHANGED fSendOpen
    /\ UNCHANGED <<nvars, avars, bvars, rvars, kvars, fGaps, fReady, fSaw, fSent, fN, fCap, fIn, fRest, fQ, fRecvOpen,
                   fPkt, fPanic, fEarly, ePc, eOut>>

\* ------------------------------------------------------ QueueEgressor
\* The consumer task of port p (a collector that pulls its egress until End)
\* is polled after a notification.
EgrPollStart(p) ==
    /\ ForkAlive /\ ePc[p] = "idle" /\ fNote[p]
    /\ fNote' = [fNote EXCEPT ![p] = FALSE]
    /\ ePc' = [ePc EXCEPT ![p] = "recv"]
    /\ UNCHANGED <<nvars, avars, bvars, rvars, kvars, fGaps, fReady, fSaw, fSent, fN, fCap, fIn, fRest, fQ, fPark, fRecvOpen, fSendOpen,
                   fPc, fPort, fPkt, fPanic, fEarly, eOut>>

\* QueueEgressor pull: pop the queue.  An item is emitted (then the producer
\* is notified), the sentinel or an empty queue whose producer is gone is
\* End, an empty queue parks.
EgrRecv(p) ==
    /\ ForkAlive /\ ePc[p] = "recv"
    /\ IF fQ[p] # << >>
         THEN /\ fQ' = [fQ EXCEPT ![p] = Tail(@)]
              /\ IF Head(fQ[p]) = None
                   THEN ePc' = [ePc EXCEPT ![p] = "ended"] /\ UNCHANGED eOut
                   ELSE /\ eOut' = [eOut EXCEPT ![p] = Append(@, Head(fQ[p]))]
                        /\ ePc' = [ePc EXCEPT ![p] = "unpark"]
         ELSE /\ ePc' = [ePc EXCEPT ![p] = IF fSendOpen THEN "park" ELSE "ended"]
              /\ UNCHANGED <<fQ, eOut>>
    /\ UNCHANGED <<nvars, avars, bvars, rvars, kvars, fGaps, fReady, fSaw, fSent, fN, fCap, fIn, fRest, fPark, fRecvOpen, fSendOpen,
                   fPc, fPort, fPkt, fPanic, fEarly, fNote>>

\* After a pop: notify the producer; the item is returned and the collector
\* pulls again.
EgrUnpark(p) ==
    /\ ForkAlive /\ ePc[p] = "unpark"
    /\ LET r == unpark_and_notify(fPark[p]) IN
         /\ fPark' = [fPark EXCEPT ![p] = r.tp]
         /\ fNote' = Notify(fNote, r.wake)
    /\ ePc' = [ePc EXCEPT ![p] = "recv"]
    /\ UNCHANGED <<nvars, avars, bvars, rvars, kvars, fGaps, fReady, fSaw, fSent, fN, fCap, fIn, fRest, fQ, fRecvOpen, fSendOpen,
                   fPc, fPort, fPkt, fPanic, fEarly, eOut>>

\* On an empty queue: park in the TaskPark and return NotReady.
EgrPark(p) ==
    /\ ForkAlive /\ ePc[p] = "park"
    /\ LET r == park_and_notify(fPark[p], p) IN
         /\ fPark' = [fPark EXCEPT ![p] = r.tp]
         /\ fNote' = Notify(fNote, r.wake)
    /\ ePc' = [ePc EXCEPT ![p] = "idle"]
    /\ UNCHANGED <<nvars, avars, bvars, rvars, kvars, fGaps, fReady, fSaw, fSent, fN, fCap, fIn, fRest, fQ, fRecvOpen, fSendOpen,
                   fPc, fPort, fPkt, fPanic, fEarly, eOut>>

ForkIngressorStep ==
    \/ ForkPollStart \/ ForkCheckFull \/ ForkPark \/ ForkPull
    \/ ForkSend \/ ForkUnpark \/ ForkComplete \/ ForkDropSend \/ ForkDropDie

EgressorStep(p) ==
    \/ EgrPollStart(p) \/ EgrRecv(p) \/ EgrUnpark(p) \/ EgrPark(p)


\* The sub-systems a specification does not run stay as they are.
AsyncOff == /\ aCap = 0 /\ aIn = << >> /\ aRest = << >> /\ aQ = << >>
            /\ aSlotC = FALSE /\ aSlotP = FALSE
            /\ aProvOpen = FALSE /\ aConsOpen = FALSE
            /\ cPc = "off" /\ pPc = "off" /\ aNote = << >> /\ aOut = << >>
            /\ aPanic = "none" /\ aEarly = FALSE
            /\ aGaps = FALSE /\ aReady = FALSE /\ cSaw = "none" /\ pSaw = "none"
BlackHoleOff == /\ bN = 0 /\ bIn = << >> /\ bRest = << >> /\ bReady = << >>
                /\ bGaps = FALSE /\ bPc = "off" /\ bIdx = 0
                /\ bNote = FALSE /\ bEnded = << >>
ForkOff == /\ fN = 0 /\ fCap = 0 /\ fIn = << >> /\ fRest = << >> /\ fQ = << >>
           /\ fPark = << >> /\ fRecvOpen = << >> /\ fSendOpen = FALSE
           /\ fPc = "off" /\ fPort = 0 /\ fPkt = None /\ fPanic = "none"
           /\ fEarly = FALSE /\ fNote = << >> /\ ePc = << >> /\ eOut = << >>
           /\ fGaps = FALSE /\ fReady = FALSE /\ fSaw = "none" /\ fSent = << >>
ProcessOff == /\ rF = << >> /\ rIn = << >> /\ rRest = << >> /\ rGaps = FALSE
              /\ rReady = FALSE /\ rPc = "off" /\ rSaw = "none"
              /\ rNote = FALSE /\ rOut = << >>
NetOff == /\ nKind = "off" /\ nCfg = << >> /\ nQ = << >> /\ nClosed = << >>
          /\ nPc = << >> /\ nHeld = << >> /\ nRR = 0 /\ nEnded = << >>
BuilderOff == /\ kKind = "off" /\ kIn = << >> /\ kCap = 0 /\ kNum = << >>
              /\ kProc = << >> /\ kArgs = << >> /\ kOrder = << >>
              /\ kPc = "off" /\ kFail = "none" /\ kLink = << >>

\* ---- ForkLink run to completion: every consumer keeps pulling.
InitFork ==
    /\ \E n \in 1..MaxPorts, cap \in 1..MaxCap, len \in 0..MaxLen :
           ForkBuilt(n, cap, len, FALSE)
    /\ AsyncOff /\ BlackHoleOff /\ ProcessOff /\ BuilderOff /\ NetOff

NextFork ==
    \/ ForkPollStart \/ ForkCheckFull \/ ForkPark \/ ForkPull
    \/ ForkSend \/ ForkUnpark \/ ForkComplete \/ ForkDropSend \/ ForkDropDie
    \/ \E p \in Ports : EgrPollStart(p)
    \/ \E p \in Ports : EgrRecv(p)
    \/ \E p \in Ports : EgrUnpark(p)
    \/ \E p \in Ports : EgrPark(p)

SpecFork == InitFork /\ [][NextFork]_vars

\* The executor is fair to every task: a task that can take a step (it is
\* notified, or it is in the middle of a poll) eventually takes it.
ForkFairness ==
    /\ WF_vars(ForkIngressorStep)
    /\ \A p \in 1..MaxPorts : WF_vars(p \in Ports /\ EgressorStep(p))

\* The liveness claims are checked over the smaller configurations below.
InitForkLive ==
    /\ \E n \in 1..LMaxPorts, cap \in 1..LMaxCap, len \in 0..LMaxLen :
           ForkBuilt(n, cap, len, FALSE)
    /\ AsyncOff /\ BlackHoleOff /\ ProcessOff /\ BuilderOff /\ NetOff

SpecForkFair == InitForkLive /\ [][NextFork]_vars /\ ForkFairness


\* ---------------------------------------------------- AsyncElementLink
CONS == 0       \* the task running the AsyncElementConsumer
PROV == 1       \* the task pulling the AsyncElementProvider

\* AsyncElement::process of the identity element of the tests.
process(packet) == packet

\* AsyncElementLink::new: the packet channel of capacity queue_capacity and
\* the two one-slot wake channels, all empty; both tasks are spawned.
AsyncNew(cap, len, gaps) ==
    /\ aCap = cap
    /\ aGaps = gaps /\ aReady = ~gaps /\ cSaw = "none" /\ pSaw = "none"
    /\ aIn = Stream(len) /\ aRest = Stream(len)
    /\ aQ = << >>
    /\ aSlotC = FALSE /\ aSlotP = FALSE
    /\ aProvOpen = TRUE /\ aConsOpen = TRUE
    /\ cPc = "spawned" /\ pPc = "spawned"
    /\ aNote = [t \in {CONS, PROV} |-> TRUE]
    /\ aOut = << >>
    /\ aPanic = "none" /\ aEarly = FALSE

AsyncAlive == aPanic # "abort"

\* The executor polls the consumer task, which was notified.
ConsPollStart ==
    /\ AsyncAlive /\ cPc \in {"spawned", "notready"} /\ aNote[CONS]
    /\ aNote' = [aNote EXCEPT ![CONS] = FALSE]
    /\ cPc' = "check" /\ cSaw' = "none"
    /\ UNCHANGED <<nvars, fvars, bvars, rvars, kvars, aGaps, aReady, pSaw, aCap, aIn, aRest, aQ, aSlotC, aSlotP,
                   aProvOpen, aConsOpen, pPc, aOut, aPanic, aEarly>>

\* ConsCheckFull that takes the queue for full one entry too late.
ConsCheckFullLate ==
    /\ AsyncAlive /\ cPc = "check"
    /\ cPc' = IF is_full(aQ, aCap + 1) THEN "park" ELSE "pull"
    /\ cSaw' = IF is_full(aQ, aCap + 1) THEN "full" ELSE cSaw
    /\ UNCHANGED <<nvars, fvars, bvars, rvars, kvars, aGaps, aReady, pSaw,
                   aCap, aIn, aRest, aQ, aSlotC, aSlotP,
                   aProvOpen, aConsOpen, pPc, aNote, aOut, aPanic, aEarly>>

\* AsyncElementConsumer::poll, line 101: to_provider.is_full().
ConsCheckFull ==
    /\ AsyncAlive /\ cPc = "check"
    /\ cPc' = IF is_full(aQ, aCap) THEN "park" ELSE "pull"
    /\ cSaw' = IF is_full(aQ, aCap) THEN "full" ELSE cSaw
    /\ UNCHANGED <<nvars, fvars, bvars, rvars, kvars, aGaps, aReady, pSaw, aCap, aIn, aRest, aQ, aSlotC, aSlotP,
                   aProvOpen, aConsOpen, pPc, aNote, aOut, aPanic, aEarly>>

\* ConsPark that returns NotReady without notifying itself when its handle
\* could not be put in the slot.
ConsParkSilent ==
    /\ AsyncAlive /\ cPc = "park"
    /\ IF try_send(IF aSlotC THEN <<CONS>> ELSE << >>, 1, aProvOpen) = "Ok"
         THEN aSlotC' = TRUE
         ELSE UNCHANGED aSlotC
    /\ cPc' = "notready"
    /\ UNCHANGED <<nvars, fvars, bvars, rvars, kvars, aGaps, aReady, cSaw, pSaw,
                   aCap, aIn, aRest, aQ, aSlotP, aNote,
                   aProvOpen, aConsOpen, pPc, aOut, aPanic, aEarly>>

\* poll, lines 102-106: await_provider.try_send(task); on an error (the slot
\* is taken, or its receiver is dropped) the task notifies itself. NotReady.
ConsPark ==
    /\ AsyncAlive /\ cPc = "park"
    /\ IF try_send(IF aSlotC THEN <<CONS>> ELSE << >>, 1, aProvOpen) = "Ok"
         THEN aSlotC' = TRUE /\ UNCHANGED aNote
         ELSE aNote' = Notify(aNote, {CONS}) /\ UNCHANGED aSlotC
    /\ cPc' = "notready"
    /\ UNCHANGED <<nvars, fvars, bvars, rvars, kvars, aGaps, aReady, cSaw, pSaw, aCap, aIn, aRest, aQ, aSlotP,
                   aProvOpen, aConsOpen, pPc, aOut, aPanic, aEarly>>

\* poll, lines 108-115: the input stream is polled; NotReady returns
\* NotReady (try_ready!), None completes the future, which the executor then
\* drops.
ConsPull ==
    /\ AsyncAlive /\ cPc = "pull"
    /\ IF ~aReady
         THEN cPc' = "notready" /\ cSaw' = "input" /\ UNCHANGED <<aRest, aReady>>
         ELSE IF aRest = << >>
           THEN cPc' = "dropSend" /\ UNCHANGED <<aRest, aReady, cSaw>>
           ELSE /\ cPc' = "send" /\ aRest' = Tail(aRest)
                /\ aReady' = ~aGaps /\ UNCHANGED cSaw
    /\ UNCHANGED <<nvars, fvars, bvars, rvars, kvars, aGaps, pSaw, aCap, aIn, aQ, aSlotC, aSlotP,
                   aProvOpen, aConsOpen, pPc, aNote, aOut, aPanic, aEarly>>

\* The packet the consumer is sending: the last one pulled, processed.
ConsPacket == process(aIn[Len(aIn) - Len(aRest)])

\* poll, lines 116-118: to_provider.try_send(Some(output_packet)); an error
\* panics, and the unwinding runs the consumer's Drop.
ConsSend ==
    /\ AsyncAlive /\ cPc = "send"
    /\ IF try_send(aQ, aCap, aProvOpen) = "Ok"
         THEN aQ' = Append(aQ, ConsPacket) /\ cPc' = "wake" /\ UNCHANGED aPanic
         ELSE aPanic' = "poll" /\ cPc' = "dropSend" /\ UNCHANGED aQ
    /\ UNCHANGED <<nvars, fvars, bvars, rvars, kvars, aGaps, aReady, cSaw, pSaw, aCap, aIn, aRest, aSlotC, aSlotP,
                   aProvOpen, aConsOpen, pPc, aNote, aOut, aEarly>>

\* poll, lines 119-121: wake_provider.try_recv(), and notify the task taken.
ConsWake ==
    /\ AsyncAlive /\ cPc = "wake"
    /\ IF aSlotP
         THEN aSlotP' = FALSE /\ aNote' = Notify(aNote, {PROV})
         ELSE UNCHANGED <<aSlotP, aNote>>
    /\ cPc' = "check"
    /\ UNCHANGED <<nvars, fvars, bvars, rvars, kvars, aGaps, aReady, cSaw, pSaw, aCap, aIn, aRest, aQ, aSlotC,
                   aProvOpen, aConsOpen, pPc, aOut, aPanic, aEarly>>

\* AsyncElementConsumer::drop, lines 69-71: to_provider.try_send(None); an
\* error panics (a panic while unwinding aborts the process), and the fields
\* are dropped.
ConsDropSend ==
    /\ AsyncAlive /\ cPc = "dropSend"
    /\ IF try_send(aQ, aCap, aProvOpen) = "Ok"
         THEN /\ aQ' = Append(aQ, None) /\ cPc' = "dropWake"
              /\ UNCHANGED <<aPanic, aConsOpen>>
         ELSE /\ aPanic' = IF aPanic = "poll" THEN "abort" ELSE "drop"
              /\ cPc' = "dropped" /\ aConsOpen' = FALSE
              /\ UNCHANGED aQ
    /\ UNCHANGED <<nvars, fvars, bvars, rvars, kvars, aGaps, aReady, cSaw, pSaw, aCap, aIn, aRest, aSlotC, aSlotP,
                   aProvOpen, pPc, aNote, aOut, aEarly>>

\* drop, lines 72-74: wake_provider.try_recv() and notify; then the fields
\* (the channel ends of the consumer) are dropped.
ConsDropWake ==
    /\ AsyncAlive /\ cPc = "dropWake"
    /\ IF aSlotP
         THEN aSlotP' = FALSE /\ aNote' = Notify(aNote, {PROV})
         ELSE UNCHANGED <<aSlotP, aNote>>
    /\ cPc' = "dropped" /\ aConsOpen' = FALSE
    /\ UNCHANGED <<nvars, fvars, bvars, rvars, kvars, aGaps, aReady, cSaw, pSaw, aCap, aIn, aRest, aQ, aSlotC,
                   aProvOpen, pPc, aOut, aPanic, aEarly>>

\* The executor polls the task that pulls the provider.
ProvPollStart ==
    /\ AsyncAlive /\ pPc \in {"spawned", "notready"} /\ aNote[PROV]
    /\ aNote' = [aNote EXCEPT ![PROV] = FALSE]
    /\ pPc' = "recv" /\ pSaw' = "none"
    /\ UNCHANGED <<nvars, fvars, bvars, rvars, kvars, aGaps, aReady, cSaw, aCap, aIn, aRest, aQ, aSlotC, aSlotP,
                   aProvOpen, aConsOpen, cPc, aOut, aPanic, aEarly>>

\* ProvRecv that takes the newest element of the queue.
ProvRecvNewest ==
    /\ AsyncAlive /\ pPc = "recv"
    /\ IF aQ # << >>
         THEN /\ aQ' = SubSeq(aQ, 1, Len(aQ) - 1)
              /\ IF aQ[Len(aQ)] = None
                   THEN pPc' = "ended" /\ UNCHANGED aOut
                   ELSE pPc' = "wake" /\ aOut' = Append(aOut, aQ[Len(aQ)])
              /\ UNCHANGED pSaw
         ELSE /\ pPc' = IF aConsOpen THEN "park" ELSE "ended"
              /\ pSaw' = IF aConsOpen THEN "empty" ELSE pSaw
              /\ UNCHANGED <<aQ, aOut>>
    /\ UNCHANGED <<nvars, fvars, bvars, rvars, kvars, aGaps, aReady, cSaw,
                   aCap, aIn, aRest, aSlotC, aSlotP,
                   aProvOpen, aConsOpen, cPc, aNote, aPanic, aEarly>>

\* AsyncElementProvider::poll, line 183: from_consumer.try_recv().
\* Ok(Some) goes on to wake the consumer, Ok(None) and Disconnected are End,
\* Empty goes on to register the task.
ProvRecv ==
    /\ AsyncAlive /\ pPc = "recv"
    /\ IF aQ # << >>
         THEN /\ aQ' = Tail(aQ)
              /\ IF Head(aQ) = None
                   THEN pPc' = "ended" /\ UNCHANGED aOut
                   ELSE pPc' = "wake" /\ aOut' = Append(aOut, Head(aQ))
              /\ UNCHANGED pSaw
         ELSE /\ pPc' = IF aConsOpen THEN "park" ELSE "ended"
              /\ pSaw' = IF aConsOpen THEN "empty" ELSE pSaw
              /\ UNCHANGED <<aQ, aOut>>
    /\ UNCHANGED <<nvars, fvars, bvars, rvars, kvars, aGaps, aReady, cSaw, aCap, aIn, aRest, aSlotC, aSlotP,
                   aProvOpen, aConsOpen, cPc, aNote, aPanic, aEarly>>

\* poll, lines 185-188: wake_consumer.try_recv() and notify; Ready(Some), and
\* the puller pulls again.
ProvWake ==
    /\ AsyncAlive /\ pPc = "wake"
    /\ IF aSlotC
         THEN aSlotC' = FALSE /\ aNote' = Notify(aNote, {CONS})
         ELSE UNCHANGED <<aSlotC, aNote>>
    /\ pPc' = "recv"
    /\ UNCHANGED <<nvars, fvars, bvars, rvars, kvars, aGaps, aReady, cSaw, pSaw, aCap, aIn, aRest, aQ, aSlotP,
                   aProvOpen, aConsOpen, cPc, aOut, aPanic, aEarly>>

\* poll, lines 194-198: await_consumer.try_send(task); on an error the task
\* notifies itself. NotReady.
ProvPark ==
    /\ AsyncAlive /\ pPc = "park"
    /\ IF try_send(IF aSlotP THEN <<PROV>> ELSE << >>, 1, aConsOpen) = "Ok"
         THEN aSlotP' = TRUE /\ UNCHANGED aNote
         ELSE aNote' = Notify(aNote, {PROV}) /\ UNCHANGED aSlotP
    /\ pPc' = "notready"
    /\ UNCHANGED <<nvars, fvars, bvars, rvars, kvars, aGaps, aReady, cSaw, pSaw, aCap, aIn, aRest, aQ, aSlotC,
                   aProvOpen, aConsOpen, cPc, aOut, aPanic, aEarly>>

\* AsyncElementProvider::drop, lines 154-156, once the puller has seen End
\* (or, early, see ProvEarlyDrop): wake_consumer.try_recv() and notify.
ProvDropWake ==
    /\ AsyncAlive /\ pPc \in {"ended", "dropWake"}
    /\ IF aSlotC
         THEN aSlotC' = FALSE /\ aNote' = Notify(aNote, {CONS})
         ELSE UNCHANGED <<aSlotC, aNote>>
    /\ pPc' = "dropFields"
    /\ UNCHANGED <<nvars, fvars, bvars, rvars, kvars, aGaps, aReady, cSaw, pSaw, aCap, aIn, aRest, aQ, aSlotP,
                   aProvOpen, aConsOpen, cPc, aOut, aPanic, aEarly>>

\* After drop returns the fields of the provider are dropped: its ends of
\* the three channels close, and a task still in the wake slot is lost.
ProvDropFields ==
    /\ AsyncAlive /\ pPc = "dropFields"
    /\ aProvOpen' = FALSE /\ aSlotC' = FALSE
    /\ pPc' = "dropped"
    /\ UNCHANGED <<nvars, fvars, bvars, rvars, kvars, aGaps, aReady, cSaw, pSaw, aCap, aIn, aRest, aQ, aSlotP,
                   aConsOpen, cPc, aNote, aOut, aPanic, aEarly>>

\* The puller is dropped between two polls, before it has seen End and
\* while the input still has items.
ProvEarlyDrop ==
    /\ AsyncAlive /\ pPc \in {"spawned", "notready", "recv"}
    /\ aRest # << >>
    /\ pPc' = "dropWake" /\ aEarly' = TRUE
    /\ UNCHANGED <<nvars, fvars, bvars, rvars, kvars, aGaps, aReady, cSaw, pSaw, aCap, aIn, aRest, aQ, aSlotC, aSlotP,
                   aProvOpen, aConsOpen, cPc, aNote, aOut, aPanic>>

ConsumerStep ==
    \/ ConsPollStart \/ ConsCheckFull \/ ConsPark \/ ConsPull
    \/ ConsSend \/ ConsWake \/ ConsDropSend \/ ConsDropWake

ProviderStep ==
    \/ ProvPollStart \/ ProvRecv \/ ProvWake \/ ProvPark
    \/ ProvDropWake \/ ProvDropFields

InitAsync ==
    /\ \E cap \in 1..AMaxCap, len \in 0..AMaxLen : AsyncNew(cap, len, FALSE)
    /\ ForkOff /\ BlackHoleOff /\ ProcessOff /\ BuilderOff /\ NetOff

NextAsync ==
    \/ ConsPollStart \/ ConsCheckFull \/ ConsPark \/ ConsPull
    \/ ConsSend \/ ConsWake \/ ConsDropSend \/ ConsDropWake
    \/ ProvPollStart \/ ProvRecv \/ ProvWake \/ ProvPark
    \/ ProvDropWake \/ ProvDropFields

SpecAsync == InitAsync /\ [][NextAsync]_vars

\* tokio polls every notified task, and a task in a poll runs on.
AsyncFairness == WF_vars(ConsumerStep) /\ WF_vars(ProviderStep)

SpecAsyncFair == SpecAsync /\ AsyncFairness

\* ---- AsyncElementLink whose provider may be dropped early.
NextAsyncDrop == NextAsync \/ ProvEarlyDrop

SpecAsyncDrop == InitAsync /\ [][NextAsyncDrop]_vars


\* ---- ForkLink torn down early: the ForkIngressor, or the consumer of a
\* port, may be dropped between two polls.

\* The ForkIngressor task is dropped while it waits (its poll returned
\* NotReady, or it was never polled): its Drop runs.
ForkEarlyDrop ==
    /\ ForkAlive /\ fPc \in {"spawned", "notready"}
    /\ fPc' = "dropSend" /\ fPort' = 1 /\ fEarly' = TRUE
    /\ UNCHANGED <<nvars, avars, bvars, rvars, kvars, fGaps, fReady, fSaw, fSent, fN, fCap, fIn, fRest, fQ, fPark, fRecvOpen,
                   fSendOpen, fPkt, fPanic, fNote, ePc, eOut>>

\* The consumer of port p is dropped between two pulls, before it has seen
\* End and while input items remain: the receiving end of its queue closes (what the queue holds stays in
\* the buffer) and its TaskPark dies, releasing a parked producer.
EgrEarlyDrop(p) ==
    /\ ForkAlive /\ ePc[p] \in {"idle", "recv"}
    /\ fRest # << >>
    /\ LET r == die_and_notify(fPark[p]) IN
         /\ fPark' = [fPark EXCEPT ![p] = r.tp]
         /\ fNote' = Notify(fNote, r.wake)
    /\ fRecvOpen' = [fRecvOpen EXCEPT ![p] = FALSE]
    /\ ePc' = [ePc EXCEPT ![p] = "dropped"]
    /\ UNCHANGED <<nvars, avars, bvars, rvars, kvars, fGaps, fReady, fSaw, fSent, fN, fCap, fIn, fRest, fQ, fSendOpen,
                   fPc, fPort, fPkt, fPanic, fEarly, eOut>>

NextForkDrop ==
    \/ NextFork
    \/ ForkEarlyDrop
    \/ \E p \in Ports : EgrEarlyDrop(p)

SpecForkDrop == InitFork /\ [][NextForkDrop]_vars

\* The same over the smaller configurations of InitForkLive.
SpecForkDropLive == InitForkLive /\ [][NextForkDrop]_vars

\* ------------------------------------------------------------ BlackHole
\* An ingress stream of the BlackHole: with bGaps it is an interval
\* generator, which is NotReady until its timer has ticked, before every
\* item and before End; otherwise it is always ready.
BlackHoleNew(n, lens, gaps) ==
    /\ bN = n
    /\ bIn = [i \in 1..n |-> Stream(lens[i])]
    /\ bRest = [i \in 1..n |-> Stream(lens[i])]
    /\ bGaps = gaps
    /\ bReady = [i \in 1..n |-> ~gaps]
    /\ bEnded = [i \in 1..n |-> FALSE]
    /\ bPc = "spawned" /\ bIdx = 1 /\ bNote = TRUE

\* The executor polls the BlackHole task, which was notified; the for loop
\* of poll starts at the first ingress stream.
BhPollStart ==
    /\ bPc \in {"spawned", "notready"} /\ bNote
    /\ bNote' = FALSE /\ bPc' = "poll" /\ bIdx' = 1
    /\ UNCHANGED <<nvars, fvars, avars, rvars, kvars, bN, bIn, bRest, bReady, bGaps, bEnded>>

\* BlackHole::poll, lines 48-52: ingress stream bIdx is polled.  NotReady
\* returns NotReady (try_ready!), End returns Ready(()), an item is dropped
\* and the loop goes on to the next stream, the first one after the last.
BhPollStream ==
    /\ bPc = "poll" /\ bIdx \in 1..bN
    /\ IF ~bReady[bIdx]
         THEN bPc' = "notready" /\ UNCHANGED <<bRest, bReady, bEnded, bIdx>>
         ELSE IF bRest[bIdx] = << >>
           THEN /\ bEnded' = [bEnded EXCEPT ![bIdx] = TRUE]
                /\ bPc' = "done"
                /\ UNCHANGED <<bRest, bReady, bIdx>>
           ELSE /\ bRest' = [bRest EXCEPT ![bIdx] = Tail(@)]
                /\ bReady' = [bReady EXCEPT ![bIdx] = ~bGaps]
                /\ bIdx' = IF bIdx = bN THEN 1 ELSE bIdx + 1
                /\ UNCHANGED <<bPc, bEnded>>
    /\ UNCHANGED <<nvars, fvars, avars, rvars, kvars, bN, bIn, bGaps, bNote>>

\* BlackHole::poll, lines 48-52, over an empty ingress_streams: the for loop
\* has nothing to iterate over and ends without polling anything.
BhEmptyFor ==
    /\ bPc = "poll" /\ bN = 0
    /\ bPc' = "again"
    /\ UNCHANGED <<nvars, fvars, avars, rvars, kvars, bN, bIn, bRest, bReady, bGaps,
                   bIdx, bNote, bEnded>>

\* BlackHole::poll, lines 47 and 53: the for loop ended without a return, so
\* `loop` starts its next pass over the streams; poll has not returned.
BhLoopAgain ==
    /\ bPc = "again"
    /\ bPc' = "poll"
    /\ UNCHANGED <<nvars, fvars, avars, rvars, kvars, bN, bIn, bRest, bReady, bGaps,
                   bIdx, bNote, bEnded>>

\* The timer of ingress stream i ticks: the stream is ready, and the task
\* that polled it is notified.
BhTick(i) ==
    /\ bGaps /\ ~bReady[i] /\ ~bEnded[i]
    /\ bReady' = [bReady EXCEPT ![i] = TRUE]
    /\ bNote' = TRUE
    /\ UNCHANGED <<nvars, fvars, avars, rvars, kvars, bN, bIn, bRest, bGaps, bPc, bIdx, bEnded>>

InitBlackHole ==
    /\ \E n \in 0..BMaxStreams :
         \E lens \in [1..n -> 0..BMaxLen], gaps \in BOOLEAN :
           BlackHoleNew(n, lens, gaps)
    /\ ForkOff /\ AsyncOff /\ ProcessOff /\ BuilderOff /\ NetOff

NextBlackHole ==
    \/ BhPollStart
    \/ BhPollStream
    \/ BhEmptyFor
    \/ BhLoopAgain
    \/ \E i \in 1..bN : BhTick(i)

SpecBlackHole == InitBlackHole /\ [][NextBlackHole]_vars

\* The executor is fair to the BlackHole task (a poll that was started goes
\* on, a notified task is polled) and every timer that runs ticks.
BlackHoleFairness ==
    /\ WF_vars(BhPollStart \/ BhPollStream \/ BhEmptyFor \/ BhLoopAgain)
    /\ \A i \in 1..BMaxStreams : WF_vars(i \in 1..bN /\ BhTick(i))

SpecBlackHoleFair == SpecBlackHole /\ BlackHoleFairness


\* ---- ForkLink fed by an interval generator: the input stream returns
\* NotReady until its timer has ticked, before every item and before End.

\* The timer of the input stream ticks: the stream is ready, and the task
\* that polled it is notified.
ForkTick ==
    /\ ForkAlive /\ fGaps /\ ~fReady
    /\ fReady' = TRUE
    /\ fNote' = Notify(fNote, {ING})
    /\ UNCHANGED <<nvars, avars, bvars, rvars, kvars, fGaps, fSaw, fSent,
                   fN, fCap, fIn, fRest, fQ, fPark, fRecvOpen, fSendOpen,
                   fPc, fPort, fPkt, fPanic, fEarly, ePc, eOut>>

InitForkGaps ==
    /\ \E n \in 1..GMaxPorts, cap \in 1..GMaxCap, len \in 0..GMaxLen :
           ForkBuilt(n, cap, len, TRUE)
    /\ AsyncOff /\ BlackHoleOff /\ ProcessOff /\ BuilderOff /\ NetOff

NextForkGaps == NextFork \/ ForkTick

\* ---- AsyncElementLink fed by an interval generator.
AsyncTick ==
    /\ AsyncAlive /\ aGaps /\ ~aReady
    /\ aReady' = TRUE
    /\ aNote' = Notify(aNote, {CONS})
    /\ UNCHANGED <<nvars, fvars, bvars, rvars, kvars, aGaps, cSaw, pSaw,
                   aCap, aIn, aRest, aQ, aSlotC, aSlotP, aProvOpen, aConsOpen,
                   cPc, pPc, aOut, aPanic, aEarly>>

InitAsyncGaps ==
    /\ \E cap \in 1..GMaxCap, len \in 0..GMaxLen : AsyncNew(cap, len, TRUE)
    /\ ForkOff /\ BlackHoleOff /\ ProcessOff /\ BuilderOff /\ NetOff

NextAsyncGaps == NextAsync \/ AsyncTick

\* ---- AsyncElementLink fed by either kind of input stream.
InitAsyncFifo == InitAsync \/ InitAsyncGaps

SpecAsyncFifo == InitAsyncFifo /\ [][NextAsyncGaps]_vars

\* ---------------------------------------------------------- ProcessLink
\* The processors explored: every function from the packets of the input to
\* Option<Output>, None dropping the packet.
Processors(len) == [1..len -> {None} \cup (1..PMaxLen)]

\* Processor::process of the processor rF.
processor_process(input_packet) == rF[input_packet]

Identity(len) == [x \in 1..len |-> x]

\* ProcessRunner::new over an input stream of len packets (an interval
\* generator when gaps); the task that pulls the egress until End is spawned.
ProcessBuilt(f, len, gaps) ==
    /\ rF = f
    /\ rIn = Stream(len) /\ rRest = Stream(len)
    /\ rGaps = gaps /\ rReady = ~gaps
    /\ rPc = "spawned" /\ rSaw = "none" /\ rNote = TRUE
    /\ rOut = << >>

\* The executor polls the pulling task, which was notified; it polls the
\* ProcessRunner.
PrPollStart ==
    /\ rPc \in {"spawned", "notready"} /\ rNote
    /\ rNote' = FALSE /\ rPc' = "poll" /\ rSaw' = "none"
    /\ UNCHANGED <<nvars, fvars, avars, bvars, kvars, rF, rIn, rRest, rGaps, rReady, rOut>>

\* PrPoll with a processor's None ending the stream.
PrPollNoneEnds ==
    /\ rPc = "poll"
    /\ IF ~rReady
         THEN rPc' = "notready" /\ rSaw' = "input"
              /\ UNCHANGED <<rRest, rReady, rOut>>
         ELSE IF rRest = << >>
           THEN rPc' = "ended" /\ UNCHANGED <<rRest, rReady, rOut, rSaw>>
           ELSE /\ rRest' = Tail(rRest)
                /\ rReady' = ~rGaps
                /\ IF processor_process(Head(rRest)) # None
                     THEN rOut' = Append(rOut, processor_process(Head(rRest)))
                          /\ UNCHANGED rPc
                     ELSE rPc' = "ended" /\ UNCHANGED rOut
                /\ UNCHANGED rSaw
    /\ UNCHANGED <<nvars, fvars, avars, bvars, kvars, rF, rIn, rGaps, rNote>>

\* PrPoll that pulls the next item before it looks whether the stream is
\* ready, and loses it on NotReady.
PrPollLosesOnGap ==
    /\ rPc = "poll"
    /\ IF ~rReady
         THEN /\ rPc' = "notready" /\ rSaw' = "input"
              /\ rRest' = (IF rRest = << >> THEN rRest ELSE Tail(rRest))
              /\ UNCHANGED <<rReady, rOut>>
         ELSE IF rRest = << >>
           THEN rPc' = "ended" /\ UNCHANGED <<rRest, rReady, rOut, rSaw>>
           ELSE /\ rRest' = Tail(rRest)
                /\ rReady' = ~rGaps
                /\ rOut' = IF processor_process(Head(rRest)) # None
                             THEN Append(rOut, processor_process(Head(rRest)))
                             ELSE rOut
                /\ UNCHANGED <<rPc, rSaw>>
    /\ UNCHANGED <<nvars, fvars, avars, bvars, kvars, rF, rIn, rGaps, rNote>>

\* PrPoll that returns Ready(None) when the input stream is NotReady.
PrPollEndsOnGap ==
    /\ rPc = "poll"
    /\ IF ~rReady
         THEN rPc' = "ended" /\ rSaw' = "input"
              /\ UNCHANGED <<rRest, rReady, rOut>>
         ELSE IF rRest = << >>
           THEN rPc' = "ended" /\ UNCHANGED <<rRest, rReady, rOut, rSaw>>
           ELSE /\ rRest' = Tail(rRest)
                /\ rReady' = ~rGaps
                /\ rOut' = IF processor_process(Head(rRest)) # None
                             THEN Append(rOut, processor_process(Head(rRest)))
                             ELSE rOut
                /\ UNCHANGED <<rPc, rSaw>>
    /\ UNCHANGED <<nvars, fvars, avars, bvars, kvars, rF, rIn, rGaps, rNote>>

\* ProcessRunner::poll, lines 110-120: one turn of the loop.  in_stream is
\* polled: NotReady returns NotReady (try_ready!), None returns Ready(None);
\* an item is processed, Some(output) is returned (and the puller, having
\* taken it, polls again), None goes round the loop.
PrPoll ==
    /\ rPc = "poll"
    /\ IF ~rReady
         THEN rPc' = "notready" /\ rSaw' = "input"
              /\ UNCHANGED <<rRest, rReady, rOut>>
         ELSE IF rRest = << >>
           THEN rPc' = "ended" /\ UNCHANGED <<rRest, rReady, rOut, rSaw>>
           ELSE /\ rRest' = Tail(rRest)
                /\ rReady' = ~rGaps
                /\ rOut' = IF processor_process(Head(rRest)) # None
                             THEN Append(rOut, processor_process(Head(rRest)))
                             ELSE rOut
                /\ UNCHANGED <<rPc, rSaw>>
    /\ UNCHANGED <<nvars, fvars, avars, bvars, kvars, rF, rIn, rGaps, rNote>>

\* The timer of the input stream ticks.
PrTick ==
    /\ rGaps /\ ~rReady /\ rPc # "ended"
    /\ rReady' = TRUE /\ rNote' = TRUE
    /\ UNCHANGED <<nvars, fvars, avars, bvars, kvars, rF, rIn, rRest, rGaps, rPc, rSaw, rOut>>

InitProcess ==
    /\ \E len \in 0..PMaxLen, gaps \in BOOLEAN :
         \E f \in Processors(len) : ProcessBuilt(f, len, gaps)
    /\ ForkOff /\ AsyncOff /\ BlackHoleOff /\ BuilderOff /\ NetOff

NextProcess == PrPollStart \/ PrPoll \/ PrTick

SpecProcess == InitProcess /\ [][NextProcess]_vars

\* The executor polls a notified task, a running poll runs on, and a timer
\* that was set fires.
ProcessFairness == WF_vars(PrPollStart \/ PrPoll) /\ WF_vars(PrTick)

SpecProcessFair == SpecProcess /\ ProcessFairness

\* ---- The two producers that end their queues with a sentinel (the
\* ForkIngressor and the AsyncElementConsumer), each run on its own to its
\* natural completion: the ForkLink over an immediate input, the
\* AsyncElementLink over an immediate input or an interval generator.
InitProducers == InitFork \/ InitAsync \/ InitAsyncGaps

NextProducers == NextFork \/ NextAsyncGaps

SpecProducers == InitProducers /\ [][NextProducers]_vars

\* ---- The two producers again, where the AsyncElementProvider may also be
\* dropped early.
NextProducersDrop == NextFork \/ NextAsyncGaps \/ ProvEarlyDrop

SpecProducersDrop == InitProducers /\ [][NextProducersDrop]_vars

\* ---- The links whose polls may return NotReady, each run on its own and
\* fed by an interval generator.
InitLinks == InitForkGaps \/ InitAsyncGaps \/ InitProcess

NextLinks == NextForkGaps \/ NextAsyncGaps \/ NextProcess

SpecLinks == InitLinks /\ [][NextLinks]_vars


\* ------------------------------------------------------------ builders
\* The builders of ForkLink, ProcessLink and BlackHoleLink.  An Option is a
\* sequence: << >> is None and <<v>> is Some(v).  Each setter is called at
\* most once on a builder; kArgs and kOrder record the calls that were made.
DefaultCapacity == 10
RangeMax == 1000

\* The arguments the setters are called with: the ends of the valid range,
\* their neighbours outside it, and values inside it.
RangeProbe == {0, 1, 2, DefaultCapacity, RangeMax, RangeMax + 1}

\* The lengths of the vectors ingressors() is called with.
VecLens == 0..2

\* (1..=1000).contains(&x)
in_range(x) == x >= 1 /\ x <= RangeMax

NoCalls == [ingressor |-> << >>, queue_capacity |-> << >>,
            num_egressors |-> << >>, processor |-> << >>,
            build_link |-> << >>]

\* ForkLink::new, ProcessLink::new, BlackHoleLink::new.
BuilderNew(kind) ==
    /\ kKind = kind
    /\ kIn = << >> /\ kNum = << >> /\ kProc = << >>
    /\ kCap = (IF kind = "Fork" THEN DefaultCapacity ELSE 0)
    /\ kArgs = NoCalls /\ kOrder = << >>
    /\ kPc = "building" /\ kFail = "none" /\ kLink = << >>

Called(setter, arg) ==
    /\ kArgs' = [kArgs EXCEPT ![setter] = <<arg>>]
    /\ kOrder' = Append(kOrder, setter)

Panics(call) ==
    /\ kPc' = "panicked" /\ kFail' = call

\* ForkLink::ingressor: in_stream is set, the other fields are copied.
KForkIngressor ==
    /\ kKind = "Fork" /\ kPc = "building" /\ kArgs.ingressor = << >>
    /\ Called("ingressor", 1)
    /\ kIn' = <<1>>
    /\ UNCHANGED <<nvars, fvars, avars, bvars, rvars, kKind, kCap, kNum, kProc,
                   kPc, kFail, kLink>>

\* KForkIngressors that takes the first stream of any non-empty vector.
KForkIngressorsTakesFirst(len) ==
    /\ kKind = "Fork" /\ kPc = "building" /\ kArgs.ingressor = << >>
    /\ Called("ingressor", len)
    /\ IF len >= 1
         THEN kIn' = <<1>> /\ UNCHANGED <<kPc, kFail>>
         ELSE Panics("ingressors") /\ UNCHANGED kIn
    /\ UNCHANGED <<nvars, fvars, avars, bvars, rvars, kKind, kCap, kNum, kProc, kLink>>

\* ForkLink::ingressors: exactly one stream, or the assertion fails.
KForkIngressors(len) ==
    /\ kKind = "Fork" /\ kPc = "building" /\ kArgs.ingressor = << >>
    /\ Called("ingressor", len)
    /\ IF len = 1
         THEN kIn' = <<1>> /\ UNCHANGED <<kPc, kFail>>
         ELSE Panics("ingressors") /\ UNCHANGED kIn
    /\ UNCHANGED <<nvars, fvars, avars, bvars, rvars, kKind, kCap, kNum, kProc, kLink>>

\* KQueueCapacity whose range starts at 0.
KQueueCapacityAllowsZero(c) ==
    /\ kKind = "Fork" /\ kPc = "building" /\ kArgs.queue_capacity = << >>
    /\ Called("queue_capacity", c)
    /\ IF c = 0 \/ in_range(c)
         THEN kCap' = c /\ UNCHANGED <<kPc, kFail>>
         ELSE Panics("queue_capacity") /\ UNCHANGED kCap
    /\ UNCHANGED <<nvars, fvars, avars, bvars, rvars, kKind, kIn, kNum, kProc, kLink>>

\* ForkLink::queue_capacity: the assertion on the range, then the field is
\* set and the other fields are copied.
KQueueCapacity(c) ==
    /\ kKind = "Fork" /\ kPc = "building" /\ kArgs.queue_capacity = << >>
    /\ Called("queue_capacity", c)
    /\ IF in_range(c)
         THEN kCap' = c /\ UNCHANGED <<kPc, kFail>>
         ELSE Panics("queue_capacity") /\ UNCHANGED kCap
    /\ UNCHANGED <<nvars, fvars, avars, bvars, rvars, kKind, kIn, kNum, kProc, kLink>>

\* KNumEgressors that builds the new ForkLink from ForkLink::new() and
\* copies in_stream only.
KNumEgressorsResetsCapacity(n) ==
    /\ kKind = "Fork" /\ kPc = "building" /\ kArgs.num_egressors = << >>
    /\ Called("num_egressors", n)
    /\ IF in_range(n)
         THEN kNum' = <<n>> /\ kCap' = DefaultCapacity /\ UNCHANGED <<kPc, kFail>>
         ELSE Panics("num_egressors") /\ UNCHANGED <<kNum, kCap>>
    /\ UNCHANGED <<nvars, fvars, avars, bvars, rvars, kKind, kIn, kProc, kLink>>

\* ForkLink::num_egressors.
KNumEgressors(n) ==
    /\ kKind = "Fork" /\ kPc = "building" /\ kArgs.num_egressors = << >>
    /\ Called("num_egressors", n)
    /\ IF in_range(n)
         THEN kNum' = <<n>> /\ UNCHANGED <<kPc, kFail>>
         ELSE Panics("num_egressors") /\ UNCHANGED kNum
    /\ UNCHANGED <<nvars, fvars, avars, bvars, rvars, kKind, kIn, kCap, kProc, kLink>>

\* KForkBuild that builds a single egressor when num_egressors is missing.
KForkBuildDefaultsPorts ==
    /\ kKind = "Fork" /\ kPc = "building" /\ kArgs.build_link = << >>
    /\ Called("build_link", 1)
    /\ IF kIn = << >>
         THEN Panics("build_link") /\ UNCHANGED kLink
         ELSE /\ kPc' = "built" /\ UNCHANGED kFail
              /\ kLink' = [runnables |-> 1,
                           egressors |-> IF kNum = << >> THEN 1 ELSE kNum[1],
                           capacity |-> <<kCap>>]
    /\ UNCHANGED <<nvars, fvars, avars, bvars, rvars, kKind, kIn, kCap, kNum, kProc>>

\* ForkLink::build_link: panics without an input stream or without
\* num_egressors; otherwise one ForkIngressor and num_egressors
\* QueueEgressors over channels of queue_capacity.
KForkBuild ==
    /\ kKind = "Fork" /\ kPc = "building" /\ kArgs.build_link = << >>
    /\ Called("build_link", 1)
    /\ IF kIn = << >> \/ kNum = << >>
         THEN Panics("build_link") /\ UNCHANGED kLink
         ELSE /\ kPc' = "built" /\ UNCHANGED kFail
              /\ kLink' = [runnables |-> 1, egressors |-> kNum[1],
                           capacity |-> <<kCap>>]
    /\ UNCHANGED <<nvars, fvars, avars, bvars, rvars, kKind, kIn, kCap, kNum, kProc>>

\* ProcessLink::ingressor.
KProcessIngressor ==
    /\ kKind = "Process" /\ kPc = "building" /\ kArgs.ingressor = << >>
    /\ Called("ingressor", 1)
    /\ kIn' = <<1>>
    /\ UNCHANGED <<nvars, fvars, avars, bvars, rvars, kKind, kCap, kNum, kProc,
                   kPc, kFail, kLink>>

\* ProcessLink::ingressors: exactly one stream, or the assertion fails.
KProcessIngressors(len) ==
    /\ kKind = "Process" /\ kPc = "building" /\ kArgs.ingressor = << >>
    /\ Called("ingressor", len)
    /\ IF len = 1
         THEN kIn' = <<1>> /\ UNCHANGED <<kPc, kFail>>
         ELSE Panics("ingressors") /\ UNCHANGED kIn
    /\ UNCHANGED <<nvars, fvars, avars, bvars, rvars, kKind, kCap, kNum, kProc, kLink>>

\* ProcessLink::processor.
KProcessor ==
    /\ kKind = "Process" /\ kPc = "building" /\ kArgs.processor = << >>
    /\ Called("processor", 1)
    /\ kProc' = <<1>>
    /\ UNCHANGED <<nvars, fvars, avars, bvars, rvars, kKind, kIn, kCap, kNum,
                   kPc, kFail, kLink>>

\* KProcessBuild that returns the ProcessRunner as a runnable as well.
KProcessBuildSpawnsRunner ==
    /\ kKind = "Process" /\ kPc = "building" /\ kArgs.build_link = << >>
    /\ Called("build_link", 1)
    /\ IF kIn = << >> \/ kProc = << >>
         THEN Panics("build_link") /\ UNCHANGED kLink
         ELSE /\ kPc' = "built" /\ UNCHANGED kFail
              /\ kLink' = [runnables |-> 1, egressors |-> 1, capacity |-> << >>]
    /\ UNCHANGED <<nvars, fvars, avars, bvars, rvars, kKind, kIn, kCap, kNum, kProc>>

\* ProcessLink::build_link: panics without an input stream or without a
\* processor; otherwise no runnable and one egressor, the ProcessRunner.
KProcessBuild ==
    /\ kKind = "Process" /\ kPc = "building" /\ kArgs.build_link = << >>
    /\ Called("build_link", 1)
    /\ IF kIn = << >> \/ kProc = << >>
         THEN Panics("build_link") /\ UNCHANGED kLink
         ELSE /\ kPc' = "built" /\ UNCHANGED kFail
              /\ kLink' = [runnables |-> 0, egressors |-> 1, capacity |-> << >>]
    /\ UNCHANGED <<nvars, fvars, avars, bvars, rvars, kKind, kIn, kCap, kNum, kProc>>

\* BlackHoleLink::ingressors: the hole is made over the streams given,
\* however many.
KHoleIngressors(len) ==
    /\ kKind = "BlackHole" /\ kPc = "building" /\ kArgs.ingressor = << >>
    /\ Called("ingressor", len)
    /\ kIn' = <<len>>
    /\ UNCHANGED <<nvars, fvars, avars, bvars, rvars, kKind, kCap, kNum, kProc,
                   kPc, kFail, kLink>>

\* BlackHoleLink::build_link: panics when the hole is None; otherwise one
\* runnable, the BlackHole, and no egressor.
KHoleBuild ==
    /\ kKind = "BlackHole" /\ kPc = "building" /\ kArgs.build_link = << >>
    /\ Called("build_link", 1)
    /\ IF kIn = << >>
         THEN Panics("build_link") /\ UNCHANGED kLink
         ELSE /\ kPc' = "built" /\ UNCHANGED kFail
              /\ kLink' = [runnables |-> 1, egressors |-> 0, capacity |-> << >>]
    /\ UNCHANGED <<nvars, fvars, avars, bvars, rvars, kKind, kIn, kCap, kNum, kProc>>

InitBuilder ==
    /\ \E kind \in {"Fork", "Process", "BlackHole"} : BuilderNew(kind)
    /\ ForkOff /\ AsyncOff /\ BlackHoleOff /\ ProcessOff /\ NetOff

NextBuilder ==
    \/ KForkIngressor
    \/ \E len \in VecLens : KForkIngressors(len)
    \/ \E c \in RangeProbe : KQueueCapacity(c)
    \/ \E n \in RangeProbe : KNumEgressors(n)
    \/ KForkBuild
    \/ KProcessIngressor
    \/ \E len \in VecLens : KProcessIngressors(len)
    \/ KProcessor
    \/ KProcessBuild
    \/ \E len \in VecLens : KHoleIngressors(len)
    \/ KHoleBuild

SpecBuilder == InitBuilder /\ [][NextBuilder]_vars


\* -------------------------------------------------- compositions of links
\* The pipelines of the examples and of the tests: tasks joined by streams
\* and bounded queues.  A packet is <<i, k>>: the k-th packet of input i.  A
\* task id is <<link, index>> and a stream id <<name, index>>.  Every queue
\* is paired with a TaskPark, whose protocol is checked on the ForkLink
\* above; here a task that returned NotReady is polled again once what it
\* waits for has happened.
NoItem == << >>
Items(i, len) == [k \in 1..len |-> <<i, k>>]

\* An ingress stream of a task: the queue or channel it pops, and the
\* processor of the ProcessLink in front of it ("none" without one).
In(q, proc) == [q |-> q, proc |-> proc]

\* The packet generators of the tests; in the example pipelines, the outside
\* thread that sends into the input channel.
Gens == IF nCfg.imm THEN {} ELSE {<<"gen", i>> : i \in 1..nCfg.n}

\* The runnables spawned, with the collectors of the test harness and the
\* outside receiver.
NetTasks ==
    Gens \cup
    CASE nKind = "classify" ->
           {<<"classify", 0>>, <<"collect", 1>>,
            <<(IF nCfg.hole THEN "hole" ELSE "collect"), 2>>}
      [] nKind = "join" -> {<<"join", 0>>, <<"collect", 1>>}
      [] nKind = "exhaust" ->
           {<<"join", 0>>, <<"dispatch", 0>>} \cup {<<"collect", p>> : p \in 1..3}
      [] nKind = "dns" ->
           {<<"input", 0>>, <<"classify", 0>>, <<"join", 0>>, <<"output", 0>>,
            <<"receiver", 1>>}
      [] nKind = "identity" -> {<<"output", 0>>, <<"receiver", 1>>}

\* The wiring: what each task pulls, in ingress order.
Ins(t) ==
    CASE t[1] = "gen" -> << In(<<"pend", t[2]>>, "none") >>
      [] t[1] = "input" -> << In(<<"chan_in", 1>>, "none") >>
      [] t[1] = "classify" ->
           IF nKind = "dns"
             THEN << In(<<"link", 1>>, "SetInterfaceByDestination") >>
             ELSE << In(<<"in", 1>>, "none") >>
      [] t[1] = "dispatch" -> << In(<<"joined", 0>>, "none") >>
      [] t[1] = "join" ->
           IF nKind = "dns"
             THEN << In(<<"port", 1>>, "LocalDNSInterceptor"),
                     In(<<"port", 2>>, "none") >>
             ELSE [i \in 1..nCfg.n |-> In(<<"in", i>>, "none")]
      [] t[1] = "collect" ->
           << In(IF nKind = "join" THEN <<"joined", 0>> ELSE <<"port", t[2]>>,
                 IF nKind = "exhaust" THEN "EthernetFrameToVec" ELSE "none") >>
      [] t[1] = "hole" -> << In(<<"port", t[2]>>, "none") >>
      [] t[1] = "output" ->
           IF nKind = "identity"
             THEN << In(<<"chan_in", 1>>, "IdentityElement") >>
             ELSE << In(<<"joined", 0>>, "none") >>
      [] t[1] = "receiver" -> << In(<<"chan_out", 1>>, "none") >>

\* The wiring: the queues each task sends into, in port order.
Outs(t) ==
    CASE t[1] = "gen" ->
           << (IF nKind \in {"dns", "identity"} THEN <<"chan_in", t[2]>>
                                                 ELSE <<"in", t[2]>>) >>
      [] t[1] = "input" -> << <<"link", 1>> >>
      [] t[1] = "classify" -> << <<"port", 1>>, <<"port", 2>> >>
      [] t[1] = "dispatch" -> << <<"port", 1>>, <<"port", 2>>, <<"port", 3>> >>
      [] t[1] = "join" -> << <<"joined", 0>> >>
      [] t[1] = "collect" -> << <<"out", t[2]>> >>
      [] t[1] = "hole" -> << >>
      [] t[1] = "output" -> << <<"chan_out", 1>> >>
      [] t[1] = "receiver" -> << <<"out", 1>> >>

NetQueues ==
    UNION {{Ins(t)[j].q : j \in DOMAIN Ins(t)} \cup
           {Outs(t)[j] : j \in DOMAIN Outs(t)} : t \in NetTasks}

\* A bounded queue or channel that holds queue_capacity items.  What a
\* generator has not sent yet, the stream of a generator and what a
\* collector has gathered are not bounded.
NetFull(q) == q[1] \notin {"pend", "in", "out"} /\ is_full(nQ[q], nCfg.cap)

\* What a poll of the stream finds: an item, End (empty and the producer is
\* gone) or NotReady.
NetStatus(q) ==
    IF nQ[q] # << >> THEN "item" ELSE IF nClosed[q] THEN "end" ELSE "notready"

\* The links are built and every runnable is spawned; the packets of input i
\* are with its generator, or in its stream when the stream is immediate.
NetBuilt(kind, cfg) ==
    /\ nKind = kind /\ nCfg = cfg
    /\ nQ = [q \in NetQueues |->
               IF q[1] = (IF cfg.imm THEN "in" ELSE "pend")
                 THEN Items(q[2], cfg.lens[q[2]]) ELSE << >>]
    /\ nClosed = [q \in NetQueues |-> q[1] = (IF cfg.imm THEN "in" ELSE "pend")]
    /\ nPc = [t \in NetTasks |-> "run"]
    /\ nHeld = [t \in NetTasks |-> NoItem]
    /\ nRR = 1
    /\ nEnded = IF <<"join", 0>> \in NetTasks
                  THEN [i \in DOMAIN Ins(<<"join", 0>>) |-> FALSE] ELSE << >>

NetCfg(n, cap, lens, imm) ==
    [n |-> n, cap |-> cap, lens |-> lens, imm |-> imm, hole |-> FALSE,
     rot |-> 0, fate |-> << >>]

\* ProcessRunner::poll in front of a stream: the processor returned None for
\* the packet, which is dropped.  IdentityElement and EthernetFrameToVec
\* return a packet for every packet; a packet of the dns pipeline has no
\* route (SetInterfaceByDestination), or is a DNS query that is answered or
\* dropped (LocalDNSInterceptor), or is anything else.
Drops(proc, x) ==
    CASE proc = "SetInterfaceByDestination" -> nCfg.fate[x[2]] = "unroutable"
      [] proc = "LocalDNSInterceptor" -> nCfg.fate[x[2]] = "dns_dropped"
      [] OTHER -> FALSE

\* ClassifyEvenness::classify.
classify(packet) == packet[2] % 2 = 0

\* dispatcher that sends every class to port 0.
dispatcher_all_to_0(evenness) == 0

\* The dispatcher of the test: |evenness| if evenness { 0 } else { 1 }.
dispatcher(evenness) == IF evenness THEN 0 ELSE 1

\* The outbound_interface of the k-th packet of ingress i: the interfaces in
\* rotation, so that every ingress carries several of them.
Interfaces == <<"Host", "Wan", "Lan", "Unmarked">>
outbound_interface(x) ==
    Interfaces[((nCfg.rot + x[1] + x[2] - 2) % 4) + 1]

\* InterfaceDispatch that sends the Unmarked packets to the Host port.
InterfaceDispatchUnmarkedToHost(interface) ==
    CASE interface = "Host" -> 1
      [] interface = "Lan" -> 2
      [] interface = "Wan" -> 3
      [] OTHER -> 1

\* InterfaceDispatch: port 0 Host, port 1 Lan, port 2 Wan; an Unmarked packet
\* goes to no port.  Ports count from 1 here, 0 is no port.
InterfaceDispatch(interface) ==
    CASE interface = "Host" -> 1
      [] interface = "Lan" -> 2
      [] interface = "Wan" -> 3
      [] OTHER -> 0

\* ClassifyDNS and the dispatcher of the dns pipeline: DNS to port 0,
\* everything else to port 1.
ClassifyDNS(x) == nCfg.fate[x[2]] \in {"dns_answered", "dns_dropped"}

\* The port of Outs(t) packet x is sent to, counting from 1; 0 is no port.
Route(t, x) ==
    CASE t[1] = "classify" ->
           IF nKind = "dns" THEN (IF ClassifyDNS(x) THEN 1 ELSE 2)
                            ELSE dispatcher(classify(x)) + 1
      [] t[1] = "dispatch" -> InterfaceDispatch(outbound_interface(x))
      [] OTHER -> 1

\* Forward that drops the packet when the queue of its port is full.
ForwardDropsOnFull(t) ==
    /\ nPc[t] = "run"
    /\ LET src == Ins(t)[1] IN
         CASE NetStatus(src.q) = "notready" -> FALSE
           [] NetStatus(src.q) = "end" ->
                /\ nClosed' = [q \in DOMAIN nClosed |->
                                 nClosed[q] \/ \E j \in DOMAIN Outs(t) : Outs(t)[j] = q]
                /\ nPc' = [nPc EXCEPT ![t] = "done"]
                /\ UNCHANGED <<nQ, nHeld>>
           [] NetStatus(src.q) = "item" ->
                LET x == Head(nQ[src.q])
                    port == IF Drops(src.proc, x) THEN 0 ELSE Route(t, x)
                IN  /\ IF port = 0 \/ NetFull(Outs(t)[IF port = 0 THEN 1 ELSE port])
                         THEN nQ' = [nQ EXCEPT ![src.q] = Tail(@)]
                         ELSE nQ' = [nQ EXCEPT ![src.q] = Tail(@),
                                               ![Outs(t)[port]] = Append(@, x)]
                    /\ UNCHANGED <<nClosed, nPc, nHeld>>
    /\ UNCHANGED <<fvars, avars, bvars, rvars, kvars, nKind, nCfg, nRR, nEnded>>

\* One pass of a runnable with one ingress.  A packet it holds is sent once
\* the queue of its port has room.  Otherwise it pulls its ingress: NotReady
\* suspends it; End makes it finish, and its dropping closes every queue it
\* sends into; a packet is sent to the queue of its port, or held when that
\* queue is full (the task parks against the port and does not advance), or
\* dropped when it has no port or the processor in front returned None.
Forward(t) ==
    /\ nPc[t] = "run"
    /\ LET src == Ins(t)[1] IN
         IF nHeld[t] # NoItem
           THEN LET o == Outs(t)[Route(t, nHeld[t])] IN
                  /\ ~NetFull(o)
                  /\ nQ' = [nQ EXCEPT ![o] = Append(@, nHeld[t])]
                  /\ nHeld' = [nHeld EXCEPT ![t] = NoItem]
                  /\ UNCHANGED <<nClosed, nPc>>
           ELSE CASE NetStatus(src.q) = "notready" -> FALSE
                  [] NetStatus(src.q) = "end" ->
                       /\ nClosed' = [q \in DOMAIN nClosed |->
                                        nClosed[q] \/ \E j \in DOMAIN Outs(t) : Outs(t)[j] = q]
                       /\ nPc' = [nPc EXCEPT ![t] = "done"]
                       /\ UNCHANGED <<nQ, nHeld>>
                  [] NetStatus(src.q) = "item" ->
                       LET x == Head(nQ[src.q])
                           port == IF Drops(src.proc, x) THEN 0 ELSE Route(t, x)
                       IN  IF port = 0
                             THEN /\ nQ' = [nQ EXCEPT ![src.q] = Tail(@)]
                                  /\ UNCHANGED <<nClosed, nPc, nHeld>>
                             ELSE IF NetFull(Outs(t)[port])
                               THEN /\ nQ' = [nQ EXCEPT ![src.q] = Tail(@)]
                                    /\ nHeld' = [nHeld EXCEPT ![t] = x]
                                    /\ UNCHANGED <<nClosed, nPc>>
                               ELSE /\ nQ' = [nQ EXCEPT ![src.q] = Tail(@),
                                                         ![Outs(t)[port]] = Append(@, x)]
                                    /\ UNCHANGED <<nClosed, nPc, nHeld>>
    /\ UNCHANGED <<fvars, avars, bvars, rvars, kvars, nKind, nCfg, nRR, nEnded>>

\* A packet generator of the tests, or the outside sender of the input
\* channel: it sends its packets one by one and is then dropped.
NetGenerate(t) == t[1] = "gen" /\ Forward(t)

\* NetInput that takes the closed and empty channel for NotReady.
NetInputNeverEnds(t) ==
    /\ t[1] = "input" /\ NetStatus(Ins(t)[1].q) # "end" /\ Forward(t)

\* InputChannelLink: its runnable pulls the external channel and sends into
\* the queue of its egress; the channel closed and empty is End.
NetInput(t) == t[1] = "input" /\ Forward(t)

\* ClassifyLink: its ingressor sends each packet into the queue of the port
\* the dispatcher gives its class.
NetClassify(t) == t[1] = "classify" /\ Forward(t)

\* InterfaceDispatch: a classifier on outbound_interface.
NetDispatch(t) == t[1] = "dispatch" /\ Forward(t)

\* NetOutput over a Forward that drops on a full channel.
NetOutputDropsOnFull(t) == t[1] = "output" /\ ForwardDropsOnFull(t)

\* OutputChannelLink: its runnable pulls its ingress and sends into the
\* external channel, which it closes at End.
NetOutput(t) == t[1] = "output" /\ Forward(t)

\* The collector of the test harness on an egress: it gathers what it pulls,
\* until End.
NetCollect(t) == t[1] = "collect" /\ Forward(t)

\* The outside receiver of the output channel, which keeps receiving.
NetReceive(t) == t[1] = "receiver" /\ Forward(t)

\* BlackHole::poll over its one ingress stream: NotReady returns NotReady,
\* End returns Ready(()), a packet is dropped and the stream polled again.
NetHole(t) ==
    /\ t[1] = "hole" /\ nPc[t] = "run"
    /\ LET src == Ins(t)[1] IN
         /\ NetStatus(src.q) # "notready"
         /\ IF NetStatus(src.q) = "end"
              THEN nPc' = [nPc EXCEPT ![t] = "done"] /\ UNCHANGED nQ
              ELSE nQ' = [nQ EXCEPT ![src.q] = Tail(@)] /\ UNCHANGED nPc
    /\ UNCHANGED <<fvars, avars, bvars, rvars, kvars, nKind, nCfg, nClosed,
                   nHeld, nRR, nEnded>>

\* JoinLink: the ingresses that would not return NotReady, and among them
\* the first one in round-robin order from nRR.
JoinReady(t) ==
    {i \in DOMAIN Ins(t) : ~nEnded[i] /\ NetStatus(Ins(t)[i].q) # "notready"}
JoinPort(t) ==
    CHOOSE i \in JoinReady(t) :
        \A j \in JoinReady(t) :
            (i - nRR) % Len(Ins(t)) <= (j - nRR) % Len(Ins(t))

\* NetJoin that finishes at the first End of an ingress.
NetJoinEndsAtFirstEnd(t) ==
    /\ t[1] = "join" /\ nPc[t] = "run"
    /\ ~NetFull(Outs(t)[1])
    /\ JoinReady(t) # {}
    /\ LET i == JoinPort(t)
           src == Ins(t)[i]
           o == Outs(t)[1]
       IN  /\ nRR' = (i % Len(Ins(t))) + 1
           /\ IF NetStatus(src.q) = "end"
                THEN /\ nEnded' = [nEnded EXCEPT ![i] = TRUE]
                     /\ nClosed' = [nClosed EXCEPT ![o] = TRUE]
                     /\ nPc' = [nPc EXCEPT ![t] = "done"]
                     /\ UNCHANGED nQ
                ELSE /\ IF Drops(src.proc, Head(nQ[src.q]))
                          THEN nQ' = [nQ EXCEPT ![src.q] = Tail(@)]
                          ELSE nQ' = [nQ EXCEPT ![src.q] = Tail(@),
                                                ![o] = Append(@, Head(nQ[src.q]))]
                     /\ UNCHANGED <<nEnded, nClosed, nPc>>
    /\ UNCHANGED <<fvars, avars, bvars, rvars, kvars, nKind, nCfg, nHeld>>

\* JoinLink: one runnable polls the ingresses in round-robin order and
\* forwards into one bounded queue, once that queue has room.  An ingress
\* that is NotReady is skipped; when all are, the runnable suspends.  It is
\* done, and its queue closed, when every ingress has returned End.
NetJoin(t) ==
    /\ t[1] = "join" /\ nPc[t] = "run"
    /\ ~NetFull(Outs(t)[1])
    /\ JoinReady(t) # {}
    /\ LET i == JoinPort(t)
           src == Ins(t)[i]
           o == Outs(t)[1]
       IN  /\ nRR' = (i % Len(Ins(t))) + 1
           /\ IF NetStatus(src.q) = "end"
                THEN /\ nEnded' = [nEnded EXCEPT ![i] = TRUE]
                     /\ IF \A j \in DOMAIN nEnded : j = i \/ nEnded[j]
                          THEN /\ nClosed' = [nClosed EXCEPT ![o] = TRUE]
                               /\ nPc' = [nPc EXCEPT ![t] = "done"]
                          ELSE UNCHANGED <<nClosed, nPc>>
                     /\ UNCHANGED nQ
                ELSE /\ IF Drops(src.proc, Head(nQ[src.q]))
                          THEN nQ' = [nQ EXCEPT ![src.q] = Tail(@)]
                          ELSE nQ' = [nQ EXCEPT ![src.q] = Tail(@),
                                                ![o] = Append(@, Head(nQ[src.q]))]
                     /\ UNCHANGED <<nEnded, nClosed, nPc>>
    /\ UNCHANGED <<fvars, avars, bvars, rvars, kvars, nKind, nCfg, nHeld>>

NetStep(t) ==
    \/ NetGenerate(t) \/ NetInput(t) \/ NetClassify(t) \/ NetDispatch(t)
    \/ NetOutput(t) \/ NetCollect(t) \/ NetReceive(t) \/ NetHole(t) \/ NetJoin(t)

\* The executor is fair to every task of T, and so are the threads outside.
NetFairness(T) == \A t \in T : WF_vars(NetStep(t))

OthersOff == ForkOff /\ AsyncOff /\ BlackHoleOff /\ ProcessOff /\ BuilderOff

\* ---- ClassifyLink by parity, a collector on port 0 and a BlackHole (or a
\* second collector) on port 1.
InitClassify ==
    /\ \E len \in 0..NMaxIn, cap \in 1..NMaxCap, imm \in BOOLEAN, hole \in BOOLEAN :
         NetBuilt("classify",
                  [NetCfg(1, cap, <<len>>, imm) EXCEPT !.hole = hole])
    /\ OthersOff

NextClassify ==
    \/ \E t \in NetTasks : NetGenerate(t)
    \/ \E t \in NetTasks : NetClassify(t)
    \/ \E t \in NetTasks : NetCollect(t)
    \/ \E t \in NetTasks : NetHole(t)

SpecClassify == InitClassify /\ [][NextClassify]_vars

\* ---- JoinLink over several ingress streams, and a collector.  Generated
\* streams carry at most NMaxLen + 2 packets in all.
RECURSIVE SumLens(_)
SumLens(lens) ==
    IF lens = << >> THEN 0 ELSE Head(lens) + SumLens(Tail(lens))

InitJoin ==
    /\ \E n \in 1..NMaxSrc, cap \in {1, NMaxCap}, imm \in BOOLEAN :
         \E lens \in [1..n -> 0..NMaxLen] :
           /\ imm \/ SumLens(lens) <= NMaxLen + 2
           /\ NetBuilt("join", NetCfg(n, cap, lens, imm))
    /\ OthersOff

NextJoin ==
    \/ \E t \in NetTasks : NetGenerate(t)
    \/ \E t \in NetTasks : NetJoin(t)
    \/ \E t \in NetTasks : NetCollect(t)

SpecJoin == InitJoin /\ [][NextJoin]_vars

\* ---- RouterExhaust::build_link: JoinLink, InterfaceDispatch, and a
\* ProcessLink(EthernetFrameToVec) on each of the three ports, in Host, Lan,
\* Wan order; the test feeds immediate streams and collects every egress.
\* The ingress streams carry at most NMaxLen + 2 packets in all.
InitExhaust ==
    /\ \E n \in 1..NMaxSrc, cap \in {1, NMaxCap}, rot \in 0..3 :
         \E lens \in [1..n -> 0..NMaxLen] :
           /\ SumLens(lens) <= NMaxLen + 2
           /\ NetBuilt("exhaust", [NetCfg(n, cap, lens, TRUE) EXCEPT !.rot = rot])
    /\ OthersOff

NextExhaust ==
    \/ \E t \in NetTasks : NetJoin(t)
    \/ \E t \in NetTasks : NetDispatch(t)
    \/ \E t \in NetTasks : NetCollect(t)

SpecExhaust == InitExhaust /\ [][NextExhaust]_vars
SpecExhaustFair ==
    SpecExhaust /\
    NetFairness({<<"join", 0>>, <<"dispatch", 0>>} \cup {<<"collect", p>> : p \in 1..3})

\* ---- dns-interceptor Pipeline::run: InputChannelLink, ProcessLink,
\* ClassifyLink(2), a ProcessLink on port 0, JoinLink, OutputChannelLink.
Fates == {"unroutable", "dns_dropped", "dns_answered", "other"}

InitDns ==
    /\ \E len \in 0..NMaxLen, cap \in 1..NMaxCap :
         \E fate \in [1..len -> Fates] :
           NetBuilt("dns", [NetCfg(1, cap, <<len>>, FALSE) EXCEPT !.fate = fate])
    /\ OthersOff

NextDns ==
    \/ \E t \in NetTasks : NetGenerate(t)
    \/ \E t \in NetTasks : NetInput(t)
    \/ \E t \in NetTasks : NetClassify(t)
    \/ \E t \in NetTasks : NetJoin(t)
    \/ \E t \in NetTasks : NetOutput(t)
    \/ \E t \in NetTasks : NetReceive(t)

SpecDns == InitDns /\ [][NextDns]_vars
SpecDnsFair ==
    SpecDns /\
    NetFairness({<<"gen", 1>>, <<"input", 0>>, <<"classify", 0>>, <<"join", 0>>,
                 <<"output", 0>>, <<"receiver", 1>>})

\* ---- trivial-identity Pipeline::run: the OutputChannelLink is the one
\* task spawned; it pulls the input channel through the ProcessLink.
InitIdentity ==
    /\ \E len \in 0..NMaxIn, cap \in 1..NMaxCap :
         NetBuilt("identity", NetCfg(1, cap, <<len>>, FALSE))
    /\ OthersOff

NextIdentity ==
    \/ \E t \in NetTasks : NetGenerate(t)
    \/ \E t \in NetTasks : NetOutput(t)
    \/ \E t \in NetTasks : NetReceive(t)

SpecIdentity == InitIdentity /\ [][NextIdentity]_vars
SpecIdentityFair ==
    SpecIdentity /\ NetFairness({<<"gen", 1>>, <<"output", 0>>, <<"receiver", 1>>})

\* ------------------------------------------------------------ claims
\* C1 -- Fork duplication: each egress yields the input sequence, every item
\* exactly once and in input order: what an egress has yielded is always a
\* prefix of the input, and an egress that has returned End has yielded the
\* whole input.
ForkDuplication ==
    \A p \in Ports :
        /\ IsPrefix(eOut[p], fIn)
        /\ (ePc[p] = "ended" => eOut[p] = fIn)

ForkDuplicationWitness ==
    /\ fN >= 2 /\ Len(fIn) >= 2 /\ fPc = "dropped"
    /\ \A p \in Ports : ePc[p] = "ended" /\ eOut[p] = fIn

\* C2 -- Backpressure liveness in Fork: a ForkIngressor that returned NotReady
\* on a full port is eventually polled again (no lost wake-up).
ForkParkedOnFull == fPc = "notready"
ForkBackpressureLive == ForkParkedOnFull ~> (fPc # "notready")

\* The ForkIngressor sleeps on the port it found full, the consumer of that
\* port has popped and taken its handle, and the notification is pending.
ForkBackpressureWitness ==
    /\ fPc = "notready" /\ fNote[ING] /\ fN >= 2
    /\ ~is_full(fQ[fPort], fCap) /\ Len(eOut[fPort]) >= 1
    /\ fPark[fPort] = TPEmpty

\* C4 -- Termination of Fork: the input ends and the consumers keep pulling,
\* so the ForkIngressor completes (and is dropped) and every egress returns End.
ForkAllEnded == fPc = "dropped" /\ \A p \in Ports : ePc[p] = "ended"
ForkTerminates == <>ForkAllEnded

ForkTerminatesWitness ==
    /\ ForkAllEnded /\ fPanic = "none" /\ fN >= 2 /\ fIn # << >>
    /\ \A p \in Ports : fPark[p] = TPDead /\ eOut[p] = fIn


\* C3 -- No lost wake-up in AsyncElementLink: never are both tasks asleep, the
\* consumer having returned NotReady on a full queue and the provider having
\* returned NotReady on an empty one, with no notification pending for either.
AsyncBothAsleep ==
    /\ cPc = "notready" /\ cSaw = "full"
    /\ pPc = "notready" /\ pSaw = "empty"
    /\ ~aNote[CONS] /\ ~aNote[PROV]
AsyncNoLostWakeup == ~AsyncBothAsleep

\* C5 -- Termination of AsyncElementLink: under a fair executor the consumer
\* future completes and the provider stream returns End.
AsyncAllEnded ==
    /\ cPc = "dropped"
    /\ pPc \in {"ended", "dropFields", "dropped"}
AsyncTerminates == <>AsyncAllEnded


\* C6 -- BlackHole completion condition: the runnable has completed only if
\* every ingress stream has returned End.
BlackHoleCompletesOnAllEnd ==
    bPc = "done" => \A i \in 1..bN : bEnded[i]

\* C7 -- BlackHole drains everything: at completion no ingress stream holds
\* an item that was not pulled.
BlackHoleDrainsAll ==
    bPc = "done" => \A i \in 1..bN : bRest[i] = << >>

\* C8 -- Drop discipline of Fork: a ForkIngressor dropped early, with all its
\* consumers alive, does not panic, has pushed the End sentinel into every
\* queue and has left every TaskPark Dead.
ForkSentinelPushed(p) ==
    \/ ePc[p] = "ended"
    \/ \E k \in 1..Len(fQ[p]) : fQ[p][k] = None
ForkDropDiscipline ==
    (fEarly /\ fPc = "dropped" /\ \A p \in Ports : fRecvOpen[p]) =>
        /\ fPanic = "none"
        /\ \A p \in Ports : ForkSentinelPushed(p) /\ fPark[p] = TPDead

\* C9 -- Early drop of the AsyncElementProvider: the consumer neither panics
\* in poll nor in Drop.
AsyncSurvivesProviderDrop == aEarly => aPanic = "none"

\* C10 -- Early drop of the consumer of a Fork egress: the ForkIngressor
\* neither panics in poll nor in Drop, and once it is dropped every
\* remaining egress has been sent End.
ForkSurvivesEgressDrop ==
    (~fEarly /\ \E p \in Ports : ~fRecvOpen[p]) =>
        /\ fPanic = "none"
        /\ (fPc = "dropped" =>
              \A p \in Ports : fRecvOpen[p] => ForkSentinelPushed(p))


\* Everything enqueued on port p that is a packet, in order.
ForkItemsSent(p) == SelectSeq(fSent[p], LAMBDA x : x # None)

ForkBetweenItems == fPc \notin {"send", "unpark"}
ForkAtomicDelivery ==
    ForkBetweenItems =>
        \A p, q \in Ports : ForkItemsSent(p) = ForkItemsSent(q)

\* The poll has returned NotReady with an item on every port while the
\* consumers are at different points.
ForkAtomicDeliveryWitness ==
    /\ fPc = "notready" /\ fN >= 2
    /\ \A p \in Ports : Len(ForkItemsSent(p)) >= 1
    /\ \E p, q \in Ports : Len(fQ[p]) # Len(fQ[q])

\* C17 -- No rejected send in Fork: with consumers that only pop, whenever
\* the ForkIngressor is about to try_send an item, the send succeeds, and
\* the ForkIngressor never panics.
ForkNoRejectedSend ==
    /\ fPanic = "none"
    /\ fPc = "send" => try_send(fQ[fPort], fCap, fRecvOpen[fPort]) = "Ok"

\* The item goes into the last free place of the queue of the second port,
\* while the consumer of the first port has popped already.
ForkNoRejectedSendWitness ==
    /\ fPc = "send" /\ fPort = 2
    /\ Len(fQ[2]) = fCap - 1 /\ fCap >= 2
    /\ Len(eOut[1]) >= 1

\* C15 -- FIFO conservation through AsyncElementLink: what the provider has
\* yielded is always a prefix of the input, and a provider that has returned
\* End has yielded the whole input.
AsyncFifo ==
    /\ IsPrefix(aOut, aIn)
    /\ (pPc \in {"ended", "dropFields", "dropped"} => aOut = aIn)

AsyncFifoWitness ==
    /\ pPc = "dropped" /\ cPc = "dropped"
    /\ Len(aIn) >= 3 /\ aCap = 2 /\ aOut = aIn

\* The output a processor owes for the input s: process(x) of every x it
\* does not drop, in the order of s.
RECURSIVE ProcessExpected(_)
ProcessExpected(s) ==
    IF s = << >> THEN << >>
    ELSE (IF rF[Head(s)] # None THEN <<rF[Head(s)]>> ELSE << >>)
             \o ProcessExpected(Tail(s))

ProcessPulled == SubSeq(rIn, 1, Len(rIn) - Len(rRest))

\* C13 -- Process conservation with identity: with the identity processor
\* the egress has always yielded exactly the items pulled so far, in order,
\* and it yields End, after the whole input, in every fair run.
ProcessIdentityConserves ==
    /\ [](rF = Identity(Len(rIn)) =>
            /\ rOut = ProcessPulled
            /\ (rPc = "ended" => rOut = rIn))
    /\ (rF = Identity(Len(rIn)) => <>(rPc = "ended"))

ProcessIdentityWitness ==
    /\ rF = Identity(Len(rIn)) /\ Len(rIn) >= 3 /\ rGaps
    /\ rPc = "ended" /\ rOut = rIn

\* C14 -- Process drop and transform: the egress has always yielded exactly
\* the values process(x) that are Some, of the inputs pulled so far and in
\* their order; at End that is the whole input, and End is reached in every
\* fair run whatever the processor drops.
ProcessDropTransform ==
    /\ [](/\ rOut = ProcessExpected(ProcessPulled)
          /\ (rPc = "ended" => rOut = ProcessExpected(rIn)))
    /\ <>(rPc = "ended")

\* A processor that drops the first and the last of three inputs.
ProcessDropTransformWitness ==
    /\ Len(rIn) = 3 /\ rF[1] = None /\ rF[2] # None /\ rF[3] = None
    /\ rPc = "ended" /\ Len(rOut) = 1

\* C16 -- Suspension points: a poll that has returned NotReady has observed
\* a full port queue or a NotReady input stream (ForkIngressor,
\* AsyncElementConsumer), a NotReady input stream (ProcessRunner), or an
\* empty queue (AsyncElementProvider).
SuspensionPoints ==
    /\ (fPc = "notready" => fSaw \in {"full", "input"})
    /\ (rPc = "notready" => rSaw = "input")
    /\ (cPc = "notready" => cSaw \in {"full", "input"})
    /\ (pPc = "notready" => pSaw = "empty")

\* The ForkIngressor has returned NotReady on its input, after it has
\* delivered an item to two ports.
SuspensionPointsWitness ==
    /\ fPc = "notready" /\ fSaw = "input" /\ fN >= 2
    /\ \A p \in Ports : Len(eOut[p]) >= 1

\* The required setters of the builder that were not called.
BuilderMissing ==
    CASE kKind = "Fork" ->
             kArgs.ingressor = << >> \/ kArgs.num_egressors = << >>
      [] kKind = "Process" ->
             kArgs.ingressor = << >> \/ kArgs.processor = << >>
      [] kKind = "BlackHole" -> kArgs.ingressor = << >>

\* C18 -- Build-time enforcement of required fields: once build_link was
\* called, it has panicked and produced nothing if a required setter was
\* never called, and has built the link otherwise; a builder that panicked
\* has produced no runnable and no egress stream.
BuildRequiresFields ==
    /\ (kArgs.build_link # << >> =>
          IF BuilderMissing
            THEN kPc = "panicked" /\ kFail = "build_link" /\ kLink = << >>
            ELSE kPc = "built" /\ kLink # << >>)
    /\ (kPc = "panicked" => kLink = << >>)

\* A ForkLink with an input stream and a queue capacity, but without
\* num_egressors, was built.
BuildRequiresFieldsWitness ==
    /\ kKind = "Fork" /\ kFail = "build_link"
    /\ kArgs.ingressor # << >> /\ kArgs.queue_capacity # << >>
    /\ kArgs.num_egressors = << >>

BuilderOrderIndependent ==
    (kKind \in {"Fork", "Process"} /\ kPc \in {"building", "built"}) =>
        /\ kIn = kArgs.ingressor
        /\ kNum = kArgs.num_egressors
        /\ kProc = kArgs.processor
        /\ (kKind = "Fork" =>
              kCap = IF kArgs.queue_capacity = << >> THEN 10
                     ELSE kArgs.queue_capacity[1])
        /\ (kPc = "built" /\ kKind = "Fork" =>
              kLink = [runnables |-> 1, egressors |-> kArgs.num_egressors[1],
                       capacity |-> <<kCap>>])
        /\ (kPc = "built" /\ kKind = "Process" =>
              kLink = [runnables |-> 0, egressors |-> 1, capacity |-> << >>])

\* A ForkLink built after num_egressors, queue_capacity and ingressor were
\* called in that order.
BuilderOrderIndependentWitness ==
    /\ kKind = "Fork" /\ kPc = "built"
    /\ kOrder = <<"num_egressors", "queue_capacity", "ingressor", "build_link">>
    /\ kCap = 2 /\ kNum = <<2>>

\* C24 -- TaskPark invariants: the cell of port p holds at most one handle,
\* that of one of the two tasks sharing it (the ForkIngressor or the consumer
\* of p); a step changes at most one cell, and into the result of one
\* park_and_notify, unpark_and_notify or die_and_notify on it; a Dead cell
\* stays Dead.
TaskParkStates(p) == {TPEmpty, TPIndirect, TPDead, TPParked(ING), TPParked(p)}
TaskParkOps(tp, p) ==
    {park_and_notify(tp, ING).tp, park_and_notify(tp, p).tp,
     unpark_and_notify(tp).tp, die_and_notify(tp).tp}
ForkTerminatedState ==
    (ForkAllEnded /\ fPanic = "none") =>
        /\ \A p \in Ports : fPark[p] = TPDead /\ fQ[p] = << >>
        /\ \A p \in Ports : fPark[p].h = NoTask
        /\ \A t \in DOMAIN fNote : ~fNote[t]

ForkTerminatedWitness ==
    /\ ForkAllEnded /\ fPanic = "none" /\ fCap = 1 /\ Len(fIn) >= 2
    /\ \A p \in Ports : Len(eOut[p]) = Len(fIn)

\* C29 -- Link shape on build: a ProcessLink builds no runnable and one
\* egress stream; a ForkLink one runnable and as many egress streams as the
\* num_egressors call asked for; a BlackHoleLink one runnable and no egress
\* stream.
LinkShapeOnBuild ==
    kPc = "built" =>
        CASE kKind = "Process"   -> kLink.runnables = 0 /\ kLink.egressors = 1
          [] kKind = "Fork"      -> /\ kLink.runnables = 1
                                    /\ kArgs.num_egressors # << >>
                                    /\ kLink.egressors = kArgs.num_egressors[1]
          [] kKind = "BlackHole" -> kLink.runnables = 1 /\ kLink.egressors = 0

LinkShapeOnBuildWitness ==
    /\ kPc = "built" /\ kKind = "Fork" /\ kLink.egressors = 2
    /\ kArgs.queue_capacity # << >> /\ kOrder[1] = "num_egressors"

\* C30 -- BlackHole with zero ingresses: the runnable of a BlackHoleLink
\* built over an empty vector of ingress streams completes.
BlackHoleEmptyCompletes == (bN = 0 /\ bPc = "spawned") ~> (bPc = "done")

\* C21 -- Partitioning in Classify with a BlackHole on one port: what port 0
\* has been sent is the even packets of the input, in input order, and all
\* of them once its collector has seen End; likewise port 1 and the odd
\* packets, so no packet reaches two ports; and port 0 yields the same
\* whether port 1 is drained by a BlackHole or by a collector.
Evens(s) == SelectSeq(s, LAMBDA x : x[2] % 2 = 0)
Odds(s) == SelectSeq(s, LAMBDA x : x[2] % 2 = 1)
IsSubSeq(s, t) ==
    \E f \in [1..Len(s) -> 1..Len(t)] :
        /\ \A k \in 1..Len(s) : t[f[k]] = s[k]
        /\ \A k \in 1..(Len(s) - 1) : f[k] < f[k + 1]
ClassifyPartitions ==
    LET input == Items(1, nCfg.lens[1]) IN
    /\ IsPrefix(nQ[<<"out", 1>>] \o nQ[<<"port", 1>>], Evens(input))
    /\ nPc[<<"collect", 1>>] = "done" => nQ[<<"out", 1>>] = Evens(input)
    /\ IF nCfg.hole
         THEN IsSubSeq(nQ[<<"port", 2>>], Odds(input))
         ELSE /\ IsPrefix(nQ[<<"out", 2>>] \o nQ[<<"port", 2>>], Odds(input))
              /\ nPc[<<"collect", 2>>] = "done" => nQ[<<"out", 2>>] = Odds(input)

ClassifyPartitionsWitness ==
    /\ nKind = "classify" /\ nCfg.hole /\ nCfg.cap = 1 /\ nCfg.lens[1] >= 4
    /\ \A t \in NetTasks : nPc[t] = "done"
    /\ nQ[<<"out", 1>>] = << <<1, 2>>, <<1, 4>> >>

\* C22 -- Conservation in Join: what the JoinLink has forwarded holds, of
\* each ingress, a prefix of that ingress in its order, and nothing twice;
\* the join finishes only when every ingress has returned End; and when its
\* egress has returned End the output is the disjoint union of the inputs.
FromIngress(s, i) == SelectSeq(s, LAMBDA x : x[1] = i)
JoinConserves ==
    LET forwarded == nQ[<<"out", 1>>] \o nQ[<<"joined", 0>>] IN
    /\ \A i \in 1..nCfg.n :
         IsPrefix(FromIngress(forwarded, i), Items(i, nCfg.lens[i]))
    /\ nPc[<<"join", 0>>] = "done" =>
         \A i \in 1..nCfg.n : nEnded[i] /\ NetStatus(<<"in", i>>) = "end"
    /\ nPc[<<"collect", 1>>] = "done" =>
         \A i \in 1..nCfg.n :
             FromIngress(nQ[<<"out", 1>>], i) = Items(i, nCfg.lens[i])

\* Two ingresses of two packets; the first was NotReady when the join
\* started, so the output starts with a packet of the second.
JoinConservesWitness ==
    /\ nKind = "join" /\ nCfg.n = 2 /\ nCfg.lens = <<2, 2>>
    /\ \A t \in NetTasks : nPc[t] = "done"
    /\ Len(nQ[<<"out", 1>>]) = 4 /\ nQ[<<"out", 1>>][1] = <<2, 1>>

\* C23 -- RouterExhaust composition: egress 0 yields the packets whose
\* outbound_interface is Host, egress 1 those for Lan and egress 2 those for
\* Wan, of every ingress and each ingress in its order; an Unmarked packet
\* comes out of no egress; and every egress returns End, having yielded all
\* the packets of its interface.
PortInterface == <<"Host", "Lan", "Wan">>
Tagged(i, p) ==
    SelectSeq(Items(i, nCfg.lens[i]),
              LAMBDA x : outbound_interface(x) = PortInterface[p])
ExhaustSorted ==
    \A p \in 1..3 :
      LET out == nQ[<<"out", p>>] IN
      /\ \A k \in 1..Len(out) : outbound_interface(out[k]) = PortInterface[p]
      /\ \A i \in 1..nCfg.n : IsPrefix(FromIngress(out, i), Tagged(i, p))
      /\ nPc[<<"collect", p>>] = "done" =>
           \A i \in 1..nCfg.n : FromIngress(out, i) = Tagged(i, p)
ExhaustEnded == \A p \in 1..3 : nPc[<<"collect", p>>] = "done"
RouterExhaustDispatches == []ExhaustSorted /\ <>ExhaustEnded

\* Two ingresses of two packets, one of them Unmarked; the Host egress has
\* yielded a packet of each ingress.
RouterExhaustWitness ==
    /\ nKind = "exhaust" /\ nCfg.n = 2 /\ nCfg.lens = <<2, 2>> /\ nCfg.cap = 1
    /\ ExhaustEnded
    /\ outbound_interface(<<1, 1>>) = "Unmarked"
    /\ Len(nQ[<<"out", 1>>]) = 2 /\ Len(nQ[<<"out", 3>>]) = 1
    /\ nQ[<<"out", 2>>] = << >>

\* C27 -- dns-interceptor pipeline shutdown: run returns (its four runnables
\* have completed), and only after the input channel was closed and drained;
\* End goes from Input through Classify and Join to Output, which closes the
\* output channel; and the output channel gets every input packet at most
\* once.
DnsRunnables ==
    {<<"input", 0>>, <<"classify", 0>>, <<"join", 0>>, <<"output", 0>>}
DnsReturned == \A t \in DnsRunnables : nPc[t] = "done"
DnsDelivered == nQ[<<"out", 1>>] \o nQ[<<"chan_out", 1>>]
DnsOrderly ==
    /\ nPc[<<"input", 0>>] = "done" =>
         nClosed[<<"chan_in", 1>>] /\ nQ[<<"chan_in", 1>>] = << >>
    /\ nPc[<<"classify", 0>>] = "done" =>
         nPc[<<"input", 0>>] = "done" /\ nQ[<<"link", 1>>] = << >>
    /\ nPc[<<"join", 0>>] = "done" =>
         /\ nPc[<<"classify", 0>>] = "done"
         /\ nQ[<<"port", 1>>] = << >> /\ nQ[<<"port", 2>>] = << >>
    /\ nPc[<<"output", 0>>] = "done" =>
         /\ nPc[<<"join", 0>>] = "done" /\ nQ[<<"joined", 0>>] = << >>
         /\ nClosed[<<"chan_out", 1>>]
    /\ \A k \in 1..Len(DnsDelivered) :
         /\ DnsDelivered[k][1] = 1 /\ DnsDelivered[k][2] \in 1..nCfg.lens[1]
         /\ \A l \in 1..Len(DnsDelivered) :
              DnsDelivered[k] = DnsDelivered[l] => k = l
DnsShutsDown == []DnsOrderly /\ <>DnsReturned

\* A DNS query that is answered and another packet: both were delivered,
\* through the two branches, and run has returned.
DnsShutsDownWitness ==
    /\ nKind = "dns" /\ nCfg.cap = 1
    /\ nCfg.lens = <<2>> /\ nCfg.fate = <<"dns_answered", "other">>
    /\ DnsReturned /\ nPc[<<"receiver", 1>>] = "done"
    /\ Len(nQ[<<"out", 1>>]) = 2

\* C28 -- Identity single-stage pipeline: the output channel is sent the
\* input sequence, in order; the task ends, and only after the input channel
\* was closed and everything in it was passed on.
IdentityInput == Items(1, nCfg.lens[1])
IdentityDelivered == nQ[<<"out", 1>>] \o nQ[<<"chan_out", 1>>]
IdentityInOrder ==
    /\ IsPrefix(IdentityDelivered, IdentityInput)
    /\ nPc[<<"output", 0>>] = "done" =>
         /\ nClosed[<<"chan_in", 1>>] /\ nQ[<<"chan_in", 1>>] = << >>
         /\ IdentityDelivered = IdentityInput
IdentityEnded ==
    nPc[<<"output", 0>>] = "done" /\ nQ[<<"out", 1>>] = IdentityInput
IdentityPipeline == []IdentityInOrder /\ <>IdentityEnded

IdentityPipelineWitness ==
    /\ nKind = "identity" /\ nCfg.cap = 1 /\ nCfg.lens[1] >= 3
    /\ IdentityEnded /\ nPc[<<"receiver", 1>>] = "done"

\* C31 -- Fork does not advance while a port is full: the port the check of
\* ForkIngressor::poll stops at is full and every port before it is not (it
\* is the lowest-indexed full port); from there the poll returns NotReady
\* without pulling the input and without sending on any port; the check has
\* passed a port only if that port is not full; and the input is pulled only
\* while no port is full, so no port receives a new item before the port the
\* poll parked against has drained.
ForkLowerPortsFree == \A q \in 1..(fPort - 1) : ~is_full(fQ[q], fCap)
ForkNoAdvanceWhileFull ==
    [][ /\ (fPc = "check" /\ fPc' = "park") =>
              /\ fPort' = fPort /\ is_full(fQ[fPort], fCap)
              /\ ForkLowerPortsFree
        /\ fPc = "check" => ForkLowerPortsFree
        /\ fPc = "park" =>
              /\ fPc' \in {"park", "notready"}
              /\ fRest' = fRest /\ fSent' = fSent /\ fPkt' = fPkt
        /\ (fPc = "pull" \/ fRest' # fRest) =>
              \A p \in Ports : ~is_full(fQ[p], fCap)
      ]_vars

\* The poll has parked against the second port, which is still full, while
\* the first port has room and input remains: nothing more was pulled.
ForkNoAdvanceWitness ==
    /\ fPc = "notready" /\ fSaw = "full" /\ fPort = 2
    /\ is_full(fQ[2], fCap) /\ ~is_full(fQ[1], fCap)
    /\ fRest # << >>
    /\ \A p \in Ports : ForkItemsSent(p) = ForkItemsSent(1)

\* C32 -- Sentinel send on natural completion: when the ForkIngressor or the
\* AsyncElementConsumer is dropped because its input returned End, with
\* consumers that only pop, each try_send(None) of its Drop finds room in the
\* queue it sends on, and neither the poll nor the Drop has panicked.
SentinelFindsRoom ==
    /\ (fPc = "dropSend" /\ ~fEarly) =>
           try_send(fQ[fPort], fCap, fRecvOpen[fPort]) = "Ok"
    /\ (cPc = "dropSend" /\ ~aEarly) => try_send(aQ, aCap, aProvOpen) = "Ok"
    /\ fPanic = "none" /\ aPanic = "none"

\* The consumer has completed on End and its Drop is about to send the
\* sentinel into the last free place of the queue.
SentinelFindsRoomWitness ==
    /\ cPc = "dropSend" /\ aRest = << >> /\ Len(aIn) >= 2
    /\ aCap >= 2 /\ Len(aQ) = aCap - 1
    /\ aProvOpen /\ aPanic = "none"

\* C33 -- Bounded occupancy: every port queue of a ForkLink and the queue of
\* an AsyncElementLink holds at most queue_capacity entries, the End sentinel
\* counted, and while the provider is alive the try_send of an item by the
\* AsyncElementConsumer is never refused with Full.
BoundedOccupancy ==
    /\ \A p \in Ports : Len(fQ[p]) <= fCap
    /\ Len(aQ) <= aCap
    /\ (cPc = "send" /\ aProvOpen) => try_send(aQ, aCap, aProvOpen) # "Full"

\* A port queue of the ForkLink is filled to its capacity, the last entry
\* being the End sentinel.
BoundedOccupancyWitness ==
    /\ fCap >= 2 /\ fN >= 2
    /\ \E p \in Ports : Len(fQ[p]) = fCap /\ fQ[p][fCap] = None

\* C34 -- Fork skew bound: the numbers of items that any two egress streams
\* of a ForkLink have yielded never differ by more than queue_capacity, so
\* when the consumer of one egress stops pulling the other egresses yield at
\* most queue_capacity further items.
ForkSkewBound ==
    \A p, q \in Ports : Len(eOut[p]) - Len(eOut[q]) <= fCap

\* One egress is ahead of the other by the whole capacity while input
\* remains, and the ForkIngressor has returned NotReady on the full port of
\* the consumer that lags.
ForkSkewBoundWitness ==
    /\ fN >= 2 /\ fRest # << >>
    /\ Len(eOut[1]) - Len(eOut[2]) = fCap
    /\ fPc = "notready" /\ fSaw = "full" /\ fPort = 2

\* C35 -- BlackHole polling order: whenever BlackHole::poll has returned
\* (NotReady or Ready), the numbers of items consumed from any two ingress
\* streams differ by at most one.
BhConsumed(i) == Len(bIn[i]) - Len(bRest[i])
BlackHoleRotation ==
    bPc \in {"notready", "done"} =>
        \A i, j \in 1..bN : BhConsumed(i) - BhConsumed(j) <= 1

\* C36 -- Wake-slot registration in AsyncElementLink: a consumer that found
\* the queue full, or a provider that found it empty, puts its handle in
\* its wake slot and, when the slot is occupied already (or its receiver is
\* gone), notifies itself before it returns NotReady, so that a task that
\* returned NotReady for that reason is registered in the slot or notified;
\* and every push of the consumer, and every pop of an item by the provider,
\* is followed by taking the handle in the peer's slot, if there is one, and
\* notifying it.
WakeSlotHeld ==
    /\ (cPc = "notready" /\ cSaw = "full") => (aSlotC \/ aNote[CONS])
    /\ (pPc = "notready" /\ pSaw = "empty") => (aSlotP \/ aNote[PROV])
WakeSlotSteps ==
    /\ (cPc = "park" /\ cPc' # "park") =>
          /\ cPc' = "notready"
          /\ IF aSlotC \/ ~aProvOpen THEN aNote'[CONS] ELSE aSlotC'
    /\ (pPc = "park" /\ pPc' # "park") =>
          /\ pPc' = "notready"
          /\ IF aSlotP \/ ~aConsOpen THEN aNote'[PROV] ELSE aSlotP'
    /\ (cPc \in {"send", "dropSend"} /\ Len(aQ') > Len(aQ)) =>
          cPc' \in {"wake", "dropWake"}
    /\ (cPc \in {"wake", "dropWake"} /\ cPc' # cPc /\ aSlotP) =>
          (~aSlotP' /\ aNote'[PROV])
    /\ (pPc = "recv" /\ aOut' # aOut) => pPc' = "wake"
    /\ (pPc = "wake" /\ pPc' # "wake" /\ aSlotC) =>
          (~aSlotC' /\ aNote'[CONS])
WakeSlotRegistration == []WakeSlotHeld /\ [][WakeSlotSteps]_vars

\* The consumer finds the queue full while its handle of an earlier poll is
\* still in the slot, and is about to notify itself.
WakeSlotRegistrationWitness ==
    /\ cPc = "park" /\ aSlotC /\ aProvOpen /\ ~aNote[CONS]
    /\ is_full(aQ, aCap) /\ aRest # << >>

\* C37 -- Process is a buffer-less pass-through: a turn of
\* ProcessRunner::poll returns End exactly when its ingress returned End and
\* NotReady exactly when its ingress returned NotReady; the ingress is
\* pulled only inside a poll; and whenever the ProcessRunner is not being
\* polled every item pulled so far has been returned, or was dropped by the
\* processor.
ProcessTurn == rPc = "poll" /\ (rPc' # "poll" \/ rRest' # rRest)
ProcessBetweenPolls == rPc \in {"spawned", "notready", "ended"}
ProcessPassThroughSteps ==
    /\ ProcessTurn =>
          /\ (rPc' = "ended") <=> (rReady /\ rRest = << >>)
          /\ (rPc' = "notready") <=> ~rReady
          /\ (rPc' \in {"ended", "notready"}) => (rRest' = rRest /\ rOut' = rOut)
    /\ (rRest' # rRest \/ rOut' # rOut) => rPc = "poll"
ProcessPassThrough ==
    /\ [](ProcessBetweenPolls => rOut = ProcessExpected(ProcessPulled))
    /\ [][ProcessPassThroughSteps]_vars

\* The poll has returned NotReady after pulling two items, one of which the
\* processor dropped and the other of which was returned.
ProcessPassThroughWitness ==
    /\ rPc = "notready" /\ rSaw = "input" /\ rRest # << >>
    /\ Len(ProcessPulled) = 2 /\ Len(rOut) = 1

\* C38 -- Single-ingress constraint: a call of ForkLink::ingressors or
\* ProcessLink::ingressors with a vector whose length is not 1 panics and
\* sets nothing; with exactly one stream it sets in_stream and leaves
\* queue_capacity, num_egressors and processor as they were.
IngressorsCalled ==
    /\ kKind \in {"Fork", "Process"}
    /\ kOrder' = Append(kOrder, "ingressor")
SingleIngressStep ==
    IngressorsCalled =>
        IF kArgs'.ingressor[1] # 1
          THEN /\ kPc' = "panicked" /\ kFail' = "ingressors"
               /\ kIn' = kIn
          ELSE /\ kIn' = <<1>> /\ kPc' = kPc /\ kFail' = kFail
               /\ kCap' = kCap /\ kNum' = kNum /\ kProc' = kProc
SingleIngress == [][SingleIngressStep]_vars

\* A ForkLink whose capacity and number of egressors were set away from
\* their defaults before the one stream was given.
SingleIngressWitness ==
    /\ kKind = "Fork" /\ kPc = "building"
    /\ kOrder = <<"queue_capacity", "num_egressors", "ingressor">>
    /\ kArgs.ingressor = <<1>> /\ kIn = <<1>>
    /\ kCap = 2 /\ kNum = <<2>>

====
